---- MODULE Spec2Model ----
(***************************************************************************)
(* Model of the FGF G-code post-processor (pressure smoothing).            *)
(*                                                                         *)
(*   src/src/gcode_parser.py   GCodeCommand, GCodeParser, write_gcode      *)
(*   src/src/path_analyzer.py  MachineState, PathAnalyzer                  *)
(*   src/src/smoothing.py      apply_curve, calculate_speed_factor,        *)
(*                             calculate_effective_ramps                   *)
(*   src/src/processor.py      GCodeProcessor                              *)
(*                                                                         *)
(* Text is a sequence of one-character strings.  Python floats are exact   *)
(* rationals [num, den] in lowest terms with den > 0: IEEE rounding is not *)
(* part of the model.                                                      *)
(***************************************************************************)
EXTENDS Integers, Sequences, FiniteSets, TLC

(***************************************************************************)
(* Rational arithmetic (the float operations of the source).               *)
(***************************************************************************)
Abs(n) == IF n < 0 THEN -n ELSE n

RECURSIVE GCD(_, _)
GCD(a, b) == IF b = 0 THEN a ELSE GCD(b, a % b)

Rat(n, d) ==
    LET s == IF d < 0 THEN -1 ELSE 1
        g == GCD(Abs(n), Abs(d))
    IN  [num |-> (s * n) \div g, den |-> (s * d) \div g]

RInt(n) == [num |-> n, den |-> 1]
RZero == RInt(0)
ROne == RInt(1)

RAdd(a, b) == Rat(a.num * b.den + b.num * a.den, a.den * b.den)
RSub(a, b) == Rat(a.num * b.den - b.num * a.den, a.den * b.den)
RMul(a, b) == Rat(a.num * b.num, a.den * b.den)
RDiv(a, b) == Rat(a.num * b.den, a.den * b.num)
RLt(a, b) == a.num * b.den < b.num * a.den
RLe(a, b) == a.num * b.den <= b.num * a.den
RMax(a, b) == IF RLt(a, b) THEN b ELSE a
RMin(a, b) == IF RLt(b, a) THEN b ELSE a
RAbs(a) == [num |-> Abs(a.num), den |-> a.den]

\* int(x) of Python: truncation toward zero.
RTrunc(a) == IF a.num >= 0 THEN a.num \div a.den ELSE -((-a.num) \div a.den)

\* round-half-even of a rational to an integer (the rounding of the
\* fixed-precision format specifications).
RRound(a) ==
    LET f == a.num \div a.den
        r2 == 2 * (a.num - f * a.den)
    IN  IF r2 < a.den THEN f
        ELSE IF r2 > a.den THEN f + 1
        ELSE IF f % 2 = 0 THEN f ELSE f + 1

\* math.sqrt on the rationals that have a rational root (the moves of the
\* model are parallel to an axis).
ISqrt(n) == CHOOSE r \in 0..n : r * r <= n /\ (r + 1) * (r + 1) > n
RSqrt(a) == [num |-> ISqrt(a.num), den |-> ISqrt(a.den)]

RECURSIVE Pow10(_)
Pow10(k) == IF k = 0 THEN 1 ELSE 10 * Pow10(k - 1)

RECURSIVE RSum(_)
RSum(s) == IF s = <<>> THEN RZero ELSE RAdd(RSum(SubSeq(s, 1, Len(s) - 1)), s[Len(s)])

(***************************************************************************)
(* Text helpers (str methods used by the source).                          *)
(***************************************************************************)
DigitChars == <<"0", "1", "2", "3", "4", "5", "6", "7", "8", "9">>
UpperChars == <<"A", "B", "C", "D", "E", "F", "G", "H", "I", "J", "K", "L", "M",
                "N", "O", "P", "Q", "R", "S", "T", "U", "V", "W", "X", "Y", "Z">>
LowerChars == <<"a", "b", "c", "d", "e", "f", "g", "h", "i", "j", "k", "l", "m",
                "n", "o", "p", "q", "r", "s", "t", "u", "v", "w", "x", "y", "z">>
Range(s) == {s[i] : i \in DOMAIN s}
IsDigit(c) == c \in Range(DigitChars)
IsUpper(c) == c \in Range(UpperChars)
DigitVal(c) == (CHOOSE i \in 1..10 : DigitChars[i] = c) - 1
Whitespace == {" ", "\t", "\n", "\r"}
IsSpace(c) == c \in Whitespace

UpperChar(c) ==
    IF c \in Range(LowerChars)
    THEN UpperChars[CHOOSE i \in 1..26 : LowerChars[i] = c]
    ELSE c
StrUpper(s) == [i \in DOMAIN s |-> UpperChar(s[i])]

Drop(s, k) == SubSeq(s, k + 1, Len(s))
Take(s, k) == SubSeq(s, 1, k)

\* str.rstrip(chars) / str.strip()
RECURSIVE RStrip(_, _)
RStrip(s, chars) ==
    IF s /= <<>> /\ s[Len(s)] \in chars THEN RStrip(Take(s, Len(s) - 1), chars) ELSE s
RECURSIVE LStrip(_, _)
LStrip(s, chars) ==
    IF s /= <<>> /\ s[1] \in chars THEN LStrip(Drop(s, 1), chars) ELSE s
Strip(s) == LStrip(RStrip(s, Whitespace), Whitespace)

\* sub in s
StartsWithAt(s, i, sub) ==
    /\ i + Len(sub) - 1 <= Len(s)
    /\ \A k \in 1..Len(sub) : s[i + k - 1] = sub[k]
Contains(s, sub) == \E i \in 1..(Len(s) + 1) : StartsWithAt(s, i, sub)

\* index of the first / last occurrence of character c in s, 0 if none
FirstIndex(s, c) ==
    IF \E i \in DOMAIN s : s[i] = c
    THEN CHOOSE i \in DOMAIN s : s[i] = c /\ \A j \in 1..(i - 1) : s[j] /= c
    ELSE 0
LastIndex(s, c) ==
    IF \E i \in DOMAIN s : s[i] = c
    THEN CHOOSE i \in DOMAIN s : s[i] = c /\ \A j \in (i + 1)..Len(s) : s[j] /= c
    ELSE 0

\* s.split()[0] of a stripped, non-empty s: the first whitespace-free token
FirstToken(s) ==
    LET stop == IF \E i \in DOMAIN s : IsSpace(s[i])
                THEN (CHOOSE i \in DOMAIN s :
                         IsSpace(s[i]) /\ \A j \in 1..(i - 1) : ~IsSpace(s[j])) - 1
                ELSE Len(s)
    IN  Take(s, stop)

(***************************************************************************)
(* Optional values: None is <<>>, a value v is <<v>>.                      *)
(***************************************************************************)
None == <<>>
Some(v) == <<v>>
\* truthiness of an optional string: neither None nor ""
Truthy(opt) == opt /= None /\ opt[1] /= <<>>

(***************************************************************************)
(* Parameter dictionaries: Python dicts keep insertion order, so params is *)
(* a sequence of [k, v] entries with unique keys.                          *)
(***************************************************************************)
Has(params, k) == \E i \in DOMAIN params : params[i].k = k
Get(params, k) == params[CHOOSE i \in DOMAIN params : params[i].k = k].v
GetOr(params, k, dflt) == IF Has(params, k) THEN Get(params, k) ELSE dflt
Put(params, k, v) ==
    IF Has(params, k)
    THEN [i \in DOMAIN params |-> IF params[i].k = k THEN [k |-> k, v |-> v] ELSE params[i]]
    ELSE Append(params, [k |-> k, v |-> v])

(***************************************************************************)
(* gcode_parser.py: GCodeCommand and GCodeParser.parse_line.               *)
(***************************************************************************)
G0 == <<"G", "0">>
G1 == <<"G", "1">>
G92 == <<"G", "9", "2">>
M82 == <<"M", "8", "2">>
M83 == <<"M", "8", "3">>

GCodeCommand(line_number, raw_line, command, params, comment, modified) ==
    [line_number |-> line_number, raw_line |-> raw_line, command |-> command,
     params |-> params, comment |-> comment, modified |-> modified]

\* first index >= i of s that does not hold a digit
RECURSIVE DigitsEnd(_, _)
DigitsEnd(s, i) == IF i <= Len(s) /\ IsDigit(s[i]) THEN DigitsEnd(s, i + 1) ELSE i

RECURSIVE DigitsToInt(_)
DigitsToInt(s) ==
    IF s = <<>> THEN 0
    ELSE 10 * DigitsToInt(Take(s, Len(s) - 1)) + DigitVal(s[Len(s)])

\* PARAM_PATTERN = ([A-Z])(-?\.?\d+\.?\d*) tried at position i of s:
\* the positions after each part of the pattern, matched greedily
PatternAt(s, i) ==
    LET j1 == i + 1
        j2 == IF j1 <= Len(s) /\ s[j1] = "-" THEN j1 + 1 ELSE j1
        j3 == IF j2 <= Len(s) /\ s[j2] = "." THEN j2 + 1 ELSE j2
        j4 == DigitsEnd(s, j3)
        j5 == IF j4 <= Len(s) /\ s[j4] = "." THEN j4 + 1 ELSE j4
        j6 == DigitsEnd(s, j5)
    IN  [matched |-> i <= Len(s) /\ IsUpper(s[i]) /\ j4 > j3,
         neg |-> j2 > j1, dot1 |-> j3 > j2, dot2 |-> j5 > j4,
         digits1 |-> SubSeq(s, j3, j4 - 1), digits2 |-> SubSeq(s, j5, j6 - 1),
         stop |-> j6]

\* float(match.group(2)): a text with two decimal points is not a float
FloatRaises(m) == m.dot1 /\ m.dot2
FloatOf(m) ==
    LET mag == IF m.dot1
               THEN Rat(DigitsToInt(m.digits1), Pow10(Len(m.digits1)))
               ELSE RAdd(RInt(DigitsToInt(m.digits1)),
                         Rat(DigitsToInt(m.digits2), Pow10(Len(m.digits2))))
    IN  IF m.neg THEN RSub(RZero, mag) ELSE mag

\* PARAM_PATTERN.finditer(param_str): the matches from position i on
RECURSIVE FindIter(_, _)
FindIter(s, i) ==
    IF i > Len(s) THEN <<>>
    ELSE LET m == PatternAt(s, i)
         IN  IF m.matched
             THEN <<[name |-> s[i], m |-> m]>> \o FindIter(s, m.stop)
             ELSE FindIter(s, i + 1)

RECURSIVE ParamsOf(_)
ParamsOf(matches) ==
    IF matches = <<>> THEN <<>>
    ELSE LET last == matches[Len(matches)]
         IN  Put(ParamsOf(Take(matches, Len(matches) - 1)), last.name, FloatOf(last.m))

\* the pieces parse_line cuts a line into
LineParts(line) ==
    LET raw_line == RStrip(line, {"\n", "\r"})
        stripped == Strip(raw_line)
        semi == FirstIndex(stripped, ";")
        code_part == IF semi > 0 THEN Strip(Take(stripped, semi - 1)) ELSE stripped
        comment == IF semi > 0 THEN Some(Strip(Drop(stripped, semi))) ELSE None
        first == FirstToken(code_part)
        param_str == Strip(Drop(code_part, Len(first)))
    IN  [raw_line |-> raw_line, stripped |-> stripped, code_part |-> code_part,
         comment |-> comment, first |-> first, param_str |-> param_str]

\* parse_line raises ValueError when float() rejects a matched token
parse_line_raises(line) ==
    LET p == LineParts(line)
        matches == FindIter(p.param_str, 1)
    IN  /\ p.stripped /= <<>>
        /\ p.code_part /= <<>>
        /\ \E i \in DOMAIN matches : FloatRaises(matches[i].m)

parse_line(line, line_number) ==
    LET p == LineParts(line)
    IN  IF p.stripped = <<>>
        THEN GCodeCommand(line_number, p.raw_line, None, <<>>, None, FALSE)
        ELSE IF p.code_part = <<>>
        THEN GCodeCommand(line_number, p.raw_line, None, <<>>, p.comment, FALSE)
        ELSE GCodeCommand(line_number, p.raw_line, Some(StrUpper(p.first)),
                          ParamsOf(FindIter(p.param_str, 1)), p.comment, FALSE)

(***************************************************************************)
(* gcode_parser.py: GCodeCommand.to_gcode and the number formats it uses.  *)
(***************************************************************************)
RECURSIVE IntToChars(_)
IntToChars(n) ==
    IF n < 10 THEN <<DigitChars[n + 1]>>
    ELSE IntToChars(n \div 10) \o <<DigitChars[(n % 10) + 1]>>

\* n written with exactly k digits (leading zeros)
RECURSIVE PadDigits(_, _)
PadDigits(n, k) ==
    IF k = 0 THEN <<>> ELSE PadDigits(n \div 10, k - 1) \o <<DigitChars[(n % 10) + 1]>>

\* f"{value:.kf}"
FormatFixed(value, k) ==
    LET scaled == RRound(RMul(RAbs(value), RInt(Pow10(k))))
        sign == IF value.num < 0 THEN <<"-">> ELSE <<>>
        whole == IntToChars(scaled \div Pow10(k))
    IN  IF k = 0 THEN sign \o whole
        ELSE sign \o whole \o <<".">> \o PadDigits(scaled % Pow10(k), k)

\* f"{value}" (repr of a float) for a value that is a finite decimal
FracDigits(value) == CHOOSE k \in 1..9 :
    /\ Pow10(k) % value.den = 0
    /\ \A j \in 1..(k - 1) : Pow10(j) % value.den /= 0
FormatRepr(value) ==
    LET k == FracDigits(value)
        scaled == (Abs(value.num) * Pow10(k)) \div value.den
        sign == IF value.num < 0 THEN <<"-">> ELSE <<>>
    IN  sign \o IntToChars(scaled \div Pow10(k)) \o <<".">> \o PadDigits(scaled % Pow10(k), k)

param_order == <<"X", "Y", "Z", "E", "F">>

\* every key printed with the one decimal of F
FormatParam_one_decimal(k, value) == <<k>> \o FormatFixed(value, 1)

FormatParam(k, value) ==
    IF k = "E" THEN <<k>> \o FormatFixed(value, 5)
    ELSE IF k = "F" THEN <<k>> \o FormatFixed(value, 1)
    ELSE <<k>> \o FormatFixed(value, 3)

\* " ".join(parts[from..]) with a leading separator
RECURSIVE StandardParts(_, _)
StandardParts(params, i) ==
    IF i > Len(param_order) THEN <<>>
    ELSE (IF Has(params, param_order[i])
          THEN <<" ">> \o FormatParam(param_order[i], Get(params, param_order[i]))
          ELSE <<>>) \o StandardParts(params, i + 1)

RECURSIVE OtherParts(_, _)
OtherParts(params, i) ==
    IF i > Len(params) THEN <<>>
    ELSE (IF params[i].k \notin Range(param_order)
          THEN <<" ", params[i].k>> \o FormatRepr(params[i].v)
          ELSE <<>>) \o OtherParts(params, i + 1)

\* to_gcode that regenerates the text of every command
to_gcode_regenerated(cmd) ==
    IF cmd.command = None
    THEN (IF Truthy(cmd.comment) THEN <<";">> \o cmd.comment[1] ELSE <<>>)
    ELSE cmd.command[1] \o StandardParts(cmd.params, 1) \o OtherParts(cmd.params, 1)
         \o (IF Truthy(cmd.comment) THEN <<" ", ";">> \o cmd.comment[1] ELSE <<>>)

to_gcode(cmd) ==
    IF ~cmd.modified THEN cmd.raw_line
    ELSE IF cmd.command = None
    THEN (IF Truthy(cmd.comment) THEN <<";">> \o cmd.comment[1] ELSE <<>>)
    ELSE cmd.command[1] \o StandardParts(cmd.params, 1) \o OtherParts(cmd.params, 1)
         \o (IF Truthy(cmd.comment) THEN <<" ", ";">> \o cmd.comment[1] ELSE <<>>)

(***************************************************************************)
(* path_analyzer.py: Point, ExtrusionMove, ExtrusionPath, MachineState.    *)
(***************************************************************************)
Point(x, y, z, e) == [x |-> x, y |-> y, z |-> z, e |-> e]

distance_xy(p, other) ==
    LET dx == RSub(other.x, p.x)
        dy == RSub(other.y, p.y)
    IN  RSqrt(RAdd(RMul(dx, dx), RMul(dy, dy)))

Unknown == <<"u", "n", "k", "n", "o", "w", "n">>

\* MachineState(): the dataclass defaults
MachineState0 ==
    [x |-> RZero, y |-> RZero, z |-> RZero, e |-> RZero, f |-> RInt(1200),
     relative_extrusion |-> FALSE, current_feature |-> Unknown]

get_position(st) == Point(st.x, st.y, st.z, st.e)

\* update_from_command that follows G1 only: a G0 leaves the tracker alone
update_from_command_g1_only(st, cmd) ==
    IF cmd.command = Some(G1)
    THEN [st EXCEPT
            !.x = GetOr(cmd.params, "X", @),
            !.y = GetOr(cmd.params, "Y", @),
            !.z = GetOr(cmd.params, "Z", @),
            !.f = GetOr(cmd.params, "F", @),
            !.e = IF Has(cmd.params, "E")
                  THEN (IF st.relative_extrusion
                        THEN RAdd(@, Get(cmd.params, "E"))
                        ELSE Get(cmd.params, "E"))
                  ELSE @]
    ELSE IF cmd.command = Some(G92)
    THEN [st EXCEPT
            !.e = GetOr(cmd.params, "E", @),
            !.x = GetOr(cmd.params, "X", @),
            !.y = GetOr(cmd.params, "Y", @),
            !.z = GetOr(cmd.params, "Z", @)]
    ELSE IF cmd.command = Some(M82)
    THEN [st EXCEPT !.relative_extrusion = FALSE]
    ELSE IF cmd.command = Some(M83)
    THEN [st EXCEPT !.relative_extrusion = TRUE]
    ELSE st

\* update_from_command whose G92 adds E to e in relative mode, as a move does
update_from_command_reset_delta(st, cmd) ==
    IF cmd.command = Some(G1) \/ cmd.command = Some(G0)
    THEN [st EXCEPT
            !.x = GetOr(cmd.params, "X", @),
            !.y = GetOr(cmd.params, "Y", @),
            !.z = GetOr(cmd.params, "Z", @),
            !.f = GetOr(cmd.params, "F", @),
            !.e = IF Has(cmd.params, "E")
                  THEN (IF st.relative_extrusion
                        THEN RAdd(@, Get(cmd.params, "E"))
                        ELSE Get(cmd.params, "E"))
                  ELSE @]
    ELSE IF cmd.command = Some(G92)
    THEN [st EXCEPT
            !.e = IF Has(cmd.params, "E")
                  THEN (IF st.relative_extrusion
                        THEN RAdd(@, Get(cmd.params, "E"))
                        ELSE Get(cmd.params, "E"))
                  ELSE @,
            !.x = GetOr(cmd.params, "X", @),
            !.y = GetOr(cmd.params, "Y", @),
            !.z = GetOr(cmd.params, "Z", @)]
    ELSE IF cmd.command = Some(M82)
    THEN [st EXCEPT !.relative_extrusion = FALSE]
    ELSE IF cmd.command = Some(M83)
    THEN [st EXCEPT !.relative_extrusion = TRUE]
    ELSE st

\* update_from_command whose M82 and M83 both flip the mode
update_from_command_toggle(st, cmd) ==
    IF cmd.command = Some(G1) \/ cmd.command = Some(G0)
    THEN [st EXCEPT
            !.x = GetOr(cmd.params, "X", @),
            !.y = GetOr(cmd.params, "Y", @),
            !.z = GetOr(cmd.params, "Z", @),
            !.f = GetOr(cmd.params, "F", @),
            !.e = IF Has(cmd.params, "E")
                  THEN (IF st.relative_extrusion
                        THEN RAdd(@, Get(cmd.params, "E"))
                        ELSE Get(cmd.params, "E"))
                  ELSE @]
    ELSE IF cmd.command = Some(G92)
    THEN [st EXCEPT
            !.e = GetOr(cmd.params, "E", @),
            !.x = GetOr(cmd.params, "X", @),
            !.y = GetOr(cmd.params, "Y", @),
            !.z = GetOr(cmd.params, "Z", @)]
    ELSE IF cmd.command = Some(M82) \/ cmd.command = Some(M83)
    THEN [st EXCEPT !.relative_extrusion = ~@]
    ELSE st

\* update_from_command that reads every opcode it does not know as a move
update_from_command_any_opcode(st, cmd) ==
    IF cmd.command = Some(G92)
    THEN [st EXCEPT
            !.e = GetOr(cmd.params, "E", @),
            !.x = GetOr(cmd.params, "X", @),
            !.y = GetOr(cmd.params, "Y", @),
            !.z = GetOr(cmd.params, "Z", @)]
    ELSE IF cmd.command = Some(M82)
    THEN [st EXCEPT !.relative_extrusion = FALSE]
    ELSE IF cmd.command = Some(M83)
    THEN [st EXCEPT !.relative_extrusion = TRUE]
    ELSE [st EXCEPT
            !.x = GetOr(cmd.params, "X", @),
            !.y = GetOr(cmd.params, "Y", @),
            !.z = GetOr(cmd.params, "Z", @),
            !.f = GetOr(cmd.params, "F", @),
            !.e = IF Has(cmd.params, "E")
                  THEN (IF st.relative_extrusion
                        THEN RAdd(@, Get(cmd.params, "E"))
                        ELSE Get(cmd.params, "E"))
                  ELSE @]

update_from_command(st, cmd) ==
    IF cmd.command = Some(G1) \/ cmd.command = Some(G0)
    THEN [st EXCEPT
            !.x = GetOr(cmd.params, "X", @),
            !.y = GetOr(cmd.params, "Y", @),
            !.z = GetOr(cmd.params, "Z", @),
            !.f = GetOr(cmd.params, "F", @),
            !.e = IF Has(cmd.params, "E")
                  THEN (IF st.relative_extrusion
                        THEN RAdd(@, Get(cmd.params, "E"))
                        ELSE Get(cmd.params, "E"))
                  ELSE @]
    ELSE IF cmd.command = Some(G92)
    THEN [st EXCEPT
            !.e = GetOr(cmd.params, "E", @),
            !.x = GetOr(cmd.params, "X", @),
            !.y = GetOr(cmd.params, "Y", @),
            !.z = GetOr(cmd.params, "Z", @)]
    ELSE IF cmd.command = Some(M82)
    THEN [st EXCEPT !.relative_extrusion = FALSE]
    ELSE IF cmd.command = Some(M83)
    THEN [st EXCEPT !.relative_extrusion = TRUE]
    ELSE st

total_length(path) == RSum([i \in DOMAIN path.moves |-> path.moves[i].length])
total_extrusion(path) == RSum([i \in DOMAIN path.moves |-> path.moves[i].extrusion])

(***************************************************************************)
(* path_analyzer.py: PathAnalyzer.                                         *)
(***************************************************************************)
\* _is_extrusion_move that takes an E equal to the tracker's e as extruding
is_extrusion_move_not_less(st, cmd) ==
    /\ cmd.command = Some(G1)
    /\ Has(cmd.params, "X") \/ Has(cmd.params, "Y")
    /\ Has(cmd.params, "E")
    /\ IF st.relative_extrusion
       THEN RLe(RZero, Get(cmd.params, "E"))
       ELSE RLe(st.e, Get(cmd.params, "E"))

\* _is_extrusion_move that compares E with 0 in both modes
is_extrusion_move_positive_e(st, cmd) ==
    /\ cmd.command = Some(G1)
    /\ Has(cmd.params, "X") \/ Has(cmd.params, "Y")
    /\ Has(cmd.params, "E")
    /\ RLt(RZero, Get(cmd.params, "E"))

is_extrusion_move(st, cmd) ==
    /\ cmd.command = Some(G1)
    /\ Has(cmd.params, "X") \/ Has(cmd.params, "Y")
    /\ Has(cmd.params, "E")
    /\ IF st.relative_extrusion
       THEN RLt(RZero, Get(cmd.params, "E"))
       ELSE RLt(st.e, Get(cmd.params, "E"))

\* _create_extrusion_move that takes the E parameter as the extrusion
create_extrusion_move_raw_e(st, cmd) ==
    LET start_point == get_position(st)
        e_param == GetOr(cmd.params, "E", st.e)
        end_e == IF st.relative_extrusion THEN RAdd(st.e, e_param) ELSE e_param
        end_point == Point(GetOr(cmd.params, "X", st.x), GetOr(cmd.params, "Y", st.y),
                           GetOr(cmd.params, "Z", st.z), end_e)
    IN  [command |-> cmd, start_point |-> start_point, end_point |-> end_point,
         length |-> distance_xy(start_point, end_point), extrusion |-> e_param,
         feedrate |-> GetOr(cmd.params, "F", st.f)]

create_extrusion_move(st, cmd) ==
    LET start_point == get_position(st)
        e_param == GetOr(cmd.params, "E", st.e)
        end_e == IF st.relative_extrusion THEN RAdd(st.e, e_param) ELSE e_param
        extrusion == IF st.relative_extrusion THEN e_param ELSE RSub(e_param, st.e)
        end_point == Point(GetOr(cmd.params, "X", st.x), GetOr(cmd.params, "Y", st.y),
                           GetOr(cmd.params, "Z", st.z), end_e)
    IN  [command |-> cmd, start_point |-> start_point, end_point |-> end_point,
         length |-> distance_xy(start_point, end_point), extrusion |-> extrusion,
         feedrate |-> GetOr(cmd.params, "F", st.f)]

TypeMarker == <<"T", "Y", "P", "E", ":">>
WipeStart == <<"W", "I", "P", "E", "_", "S", "T", "A", "R", "T">>
WipeEnd == <<"W", "I", "P", "E", "_", "E", "N", "D">>

\* detect_feature_type without the upper(): a lower-case marker is missed
detect_feature_type_case_sensitive(cmd) ==
    IF Truthy(cmd.comment) /\ Contains(cmd.comment[1], TypeMarker)
    THEN Some(Strip(Drop(cmd.comment[1], LastIndex(cmd.comment[1], ":"))))
    ELSE None

\* the feature label of a command's comment, None if it has none
detect_feature_type(cmd) ==
    IF Truthy(cmd.comment) /\ Contains(StrUpper(cmd.comment[1]), TypeMarker)
    THEN Some(Strip(Drop(cmd.comment[1], LastIndex(cmd.comment[1], ":"))))
    ELSE None

\* has_wipe_marker that knows WIPE_START only
has_wipe_marker_start_only(cmd) ==
    /\ Truthy(cmd.comment)
    /\ Contains(cmd.comment[1], WipeStart)

has_wipe_marker(cmd) ==
    /\ Truthy(cmd.comment)
    /\ Contains(cmd.comment[1], WipeStart) \/ Contains(cmd.comment[1], WipeEnd)

\* a path opened without its start_line (the dataclass default stays)
ExtrusionPath_no_start(feature_type, start_line) ==
    [moves |-> <<>>, feature_type |-> feature_type, start_line |-> 0, end_line |-> 0]

ExtrusionPath(feature_type, start_line) ==
    [moves |-> <<>>, feature_type |-> feature_type, start_line |-> start_line, end_line |-> 0]

\* "if current_path and current_path.moves: end_line = ...; paths.append(...)"
ClosedPath(cp) == [cp EXCEPT !.end_line = cp.moves[Len(cp.moves)].command.line_number]
HasOpenMoves(cur) == cur /= None /\ cur[1].moves /= <<>>
PathsAfterClose(ps, cur) == IF HasOpenMoves(cur) THEN Append(ps, ClosedPath(cur[1])) ELSE ps
\* the accumulator kept after a close ("current_path = None" left out)
CurrentAfterClose_kept(cur) == cur

CurrentAfterClose(cur) == IF HasOpenMoves(cur) THEN None ELSE cur

\* has_movement with all() in the place of any()
has_movement_all(cmd) == \A axis \in {"X", "Y", "Z"} : Has(cmd.params, axis)

\* has_movement that looks at the two planar axes only
has_movement_planar(cmd) == \E axis \in {"X", "Y"} : Has(cmd.params, axis)

\* "has_movement = any(axis in cmd.params for axis in ["X", "Y", "Z"])"
has_movement(cmd) == \E axis \in {"X", "Y", "Z"} : Has(cmd.params, axis)

\* one iteration of the loop of analyze over cmd, from the analyzer's
\* (state, paths, current_path); the result is the triple after it
analyze_step(st, ps, cur, cmd) ==
    LET feature == detect_feature_type(cmd)
        labelled == Truthy(feature)
        ps1 == IF labelled THEN PathsAfterClose(ps, cur) ELSE ps
        cur1 == IF labelled THEN CurrentAfterClose(cur) ELSE cur
        st1 == IF labelled THEN [st EXCEPT !.current_feature = feature[1]] ELSE st
    IN  IF has_wipe_marker(cmd)
        THEN [state |-> st1, paths |-> PathsAfterClose(ps1, cur1),
              current_path |-> CurrentAfterClose(cur1)]
        ELSE IF cmd.command \in {Some(M82), Some(M83), Some(G92)}
        THEN [state |-> update_from_command(st1, cmd), paths |-> PathsAfterClose(ps1, cur1),
              current_path |-> CurrentAfterClose(cur1)]
        ELSE IF is_extrusion_move(st1, cmd)
        THEN LET opened == IF cur1 = None
                           THEN ExtrusionPath(st1.current_feature, cmd.line_number)
                           ELSE cur1[1]
                 move == create_extrusion_move(st1, cmd)
             IN  [state |-> update_from_command(st1, cmd), paths |-> ps1,
                  current_path |-> Some([opened EXCEPT !.moves = Append(@, move)])]
        ELSE IF cmd.command \in {Some(G0), Some(G1)}
        THEN [state |-> update_from_command(st1, cmd),
              paths |-> IF has_movement(cmd) THEN PathsAfterClose(ps1, cur1) ELSE ps1,
              current_path |-> IF has_movement(cmd) THEN CurrentAfterClose(cur1) ELSE cur1]
        ELSE [state |-> update_from_command(st1, cmd), paths |-> ps1, current_path |-> cur1]

(***************************************************************************)
(* smoothing.py: CurveType, apply_curve, calculate_speed_factor,           *)
(* calculate_effective_ramps.                                              *)
(***************************************************************************)
LINEAR == <<"l", "i", "n", "e", "a", "r">>
EXPONENTIAL == <<"e", "x", "p", "o", "n", "e", "n", "t", "i", "a", "l">>
LOGARITHMIC == <<"l", "o", "g", "a", "r", "i", "t", "h", "m", "i", "c">>
SIGMOID == <<"s", "i", "g", "m", "o", "i", "d">>
QUADRATIC == <<"q", "u", "a", "d", "r", "a", "t", "i", "c">>
SCURVE == <<"s", "c", "u", "r", "v", "e">>
CurveType == {LINEAR, EXPONENTIAL, LOGARITHMIC, SIGMOID, QUADRATIC, SCURVE}

\* The three transcendental curves, tabulated in thousandths at progress
\* 0, 0.1, ..., 1 from the formulas of apply_curve and interpolated linearly
\* in between (math.exp and math.log have no exact rational value).
ExponentialTable == <<0, 35, 77, 129, 192, 269, 363, 478, 619, 790, 1000>>
LogarithmicTable == <<0, 159, 295, 416, 523, 620, 709, 790, 865, 935, 1000>>
SigmoidTable == <<7, 18, 47, 119, 269, 500, 731, 881, 953, 982, 993>>

Interpolate(table, progress) ==
    LET scaled == RMul(progress, RInt(10))
        k == IF RTrunc(scaled) >= 10 THEN 9 ELSE RTrunc(scaled)
        frac == RSub(scaled, RInt(k))
    IN  RDiv(RAdd(RInt(table[k + 1]),
                  RMul(RInt(table[k + 2] - table[k + 1]), frac)),
             RInt(1000))

\* apply_curve without the clamp of its first line
apply_curve_unclamped(progress0, curve_type) ==
    LET progress == progress0
    IN  IF curve_type = LINEAR THEN progress
        ELSE IF curve_type = EXPONENTIAL THEN Interpolate(ExponentialTable, RMax(RZero, RMin(ROne, progress)))
        ELSE IF curve_type = LOGARITHMIC THEN Interpolate(LogarithmicTable, RMax(RZero, RMin(ROne, progress)))
        ELSE IF curve_type = SIGMOID THEN Interpolate(SigmoidTable, RMax(RZero, RMin(ROne, progress)))
        ELSE IF curve_type = QUADRATIC THEN RMul(progress, progress)
        ELSE IF curve_type = SCURVE
        THEN (IF RLt(progress, Rat(1, 2))
              THEN RMul(RInt(2), RMul(progress, progress))
              ELSE RSub(ROne, RMul(RInt(2), RMul(RSub(ROne, progress), RSub(ROne, progress)))))
        ELSE progress

apply_curve(progress0, curve_type) ==
    LET progress == RMax(RZero, RMin(ROne, progress0))
    IN  IF curve_type = LINEAR THEN progress
        ELSE IF curve_type = EXPONENTIAL THEN Interpolate(ExponentialTable, progress)
        ELSE IF curve_type = LOGARITHMIC THEN Interpolate(LogarithmicTable, progress)
        ELSE IF curve_type = SIGMOID THEN Interpolate(SigmoidTable, progress)
        ELSE IF curve_type = QUADRATIC THEN RMul(progress, progress)
        ELSE IF curve_type = SCURVE
        THEN (IF RLt(progress, Rat(1, 2))
              THEN RMul(RInt(2), RMul(progress, progress))
              ELSE RSub(ROne, RMul(RInt(2), RMul(RSub(ROne, progress), RSub(ROne, progress)))))
        ELSE progress

\* calculate_speed_factor that tests the ramp-down zone first
calculate_speed_factor_down_first(distance_from_start, distance_to_end, ramp_up_length, ramp_down_length, ramp_up_curve, ramp_down_curve) ==
    IF RLt(distance_to_end, ramp_down_length)
    THEN apply_curve(RDiv(distance_to_end, ramp_down_length), ramp_down_curve)
    ELSE IF RLt(distance_from_start, ramp_up_length)
    THEN apply_curve(RDiv(distance_from_start, ramp_up_length), ramp_up_curve)
    ELSE ROne

\* calculate_speed_factor whose ramp-down progress runs from the ramp's start
calculate_speed_factor_down_reversed(distance_from_start, distance_to_end, ramp_up_length, ramp_down_length, ramp_up_curve, ramp_down_curve) ==
    IF RLt(distance_from_start, ramp_up_length)
    THEN apply_curve(RDiv(distance_from_start, ramp_up_length), ramp_up_curve)
    ELSE IF RLt(distance_to_end, ramp_down_length)
    THEN apply_curve(RSub(ROne, RDiv(distance_to_end, ramp_down_length)), ramp_down_curve)
    ELSE ROne

calculate_speed_factor(distance_from_start, distance_to_end, ramp_up_length, ramp_down_length, ramp_up_curve, ramp_down_curve) ==
    IF RLt(distance_from_start, ramp_up_length)
    THEN apply_curve(RDiv(distance_from_start, ramp_up_length), ramp_up_curve)
    ELSE IF RLt(distance_to_end, ramp_down_length)
    THEN apply_curve(RDiv(distance_to_end, ramp_down_length), ramp_down_curve)
    ELSE ROne

\* ramps allowed to take the whole path
max_ramp_ratio_whole == ROne

max_ramp_ratio == Rat(8, 10)

\* calculate_effective_ramps that shrinks the ramp-up only
calculate_effective_ramps_up_only(path_length, ramp_up_length, ramp_down_length) ==
    LET total_ramp == RAdd(ramp_up_length, ramp_down_length)
        max_total_ramp == RMul(path_length, max_ramp_ratio)
        ratio == RDiv(max_total_ramp, total_ramp)
    IN  IF RLe(total_ramp, max_total_ramp)
        THEN [up |-> ramp_up_length, down |-> ramp_down_length]
        ELSE [up |-> RMul(ramp_up_length, ratio), down |-> ramp_down_length]

calculate_effective_ramps(path_length, ramp_up_length, ramp_down_length) ==
    LET total_ramp == RAdd(ramp_up_length, ramp_down_length)
        max_total_ramp == RMul(path_length, max_ramp_ratio)
        ratio == RDiv(max_total_ramp, total_ramp)
    IN  IF RLe(total_ramp, max_total_ramp)
        THEN [up |-> ramp_up_length, down |-> ramp_down_length]
        ELSE [up |-> RMul(ramp_up_length, ratio), down |-> RMul(ramp_down_length, ratio)]

(***************************************************************************)
(* processor.py: ProcessorConfig, GCodeProcessor.                          *)
(***************************************************************************)
ProcessorConfig(up, down, up_curve, down_curve, min_len, min_speed, resolution, features) ==
    [ramp_up_length |-> up, ramp_down_length |-> down,
     ramp_up_curve |-> up_curve, ramp_down_curve |-> down_curve,
     min_path_length |-> min_len, min_speed_ratio |-> min_speed,
     segment_resolution |-> resolution, target_features |-> features]

\* ProcessorConfig(): the dataclass defaults, which are also the CLI defaults
DefaultConfig ==
    ProcessorConfig(RInt(5), RInt(4), SIGMOID, EXPONENTIAL, ROne, Rat(1, 10), Rat(1, 2), None)

ProcessingStats0 ==
    [input_lines |-> 0, output_lines |-> 0, paths_found |-> 0, paths_processed |-> 0,
     paths_skipped |-> 0, total_path_length |-> RZero]

\* should_process_path that also drops a path of exactly min_path_length
should_process_path_strict(cfg, path) ==
    /\ RLt(cfg.min_path_length, total_length(path))
    /\ ~(/\ cfg.target_features /= None
         /\ cfg.target_features[1] /= <<>>
         /\ path.feature_type \notin Range(cfg.target_features[1]))

should_process_path(cfg, path) ==
    /\ ~RLt(total_length(path), cfg.min_path_length)
    /\ ~(/\ cfg.target_features /= None
         /\ cfg.target_features[1] /= <<>>
         /\ path.feature_type \notin Range(cfg.target_features[1]))

RampUp == <<"R", "A", "M", "P", "_", "U", "P">>
RampDown == <<"R", "A", "M", "P", "_", "D", "O", "W", "N">>
Steady == <<"S", "T", "E", "A", "D", "Y">>

\* f"{speed_factor*100:.0f}%"
Percent(speed_factor) == FormatFixed(RMul(speed_factor, RInt(100)), 0) \o <<"%">>

generate_segment_command(end_x, end_y, end_z, end_e, feedrate, phase, speed_factor, has_z) ==
    LET params == <<[k |-> "X", v |-> end_x], [k |-> "Y", v |-> end_y],
                    [k |-> "E", v |-> end_e], [k |-> "F", v |-> feedrate]>>
    IN  GCodeCommand(0, <<>>, Some(G1),
                     IF has_z THEN Put(params, "Z", end_z) ELSE params,
                     Some(phase \o <<" ">> \o Percent(speed_factor)), TRUE)

\* the speed factor without the min_speed_ratio floor
FlooredFactorNoFloor(cfg, dist, dist_to_end, eff) ==
    calculate_speed_factor(dist, dist_to_end, eff.up, eff.down,
                           cfg.ramp_up_curve, cfg.ramp_down_curve)

\* speed factor with the min_speed_ratio floor
FlooredFactor(cfg, dist, dist_to_end, eff) ==
    RMax(calculate_speed_factor(dist, dist_to_end, eff.up, eff.down,
                                cfg.ramp_up_curve, cfg.ramp_down_curve),
         cfg.min_speed_ratio)

\* PhaseAt whose zones include their far end (<= in the place of <)
PhaseAt_inclusive(dist, dist_to_end, eff) ==
    IF RLe(dist, eff.up) THEN RampUp
    ELSE IF RLe(dist_to_end, eff.down) THEN RampDown
    ELSE Steady

PhaseAt(dist, dist_to_end, eff) ==
    IF RLt(dist, eff.up) THEN RampUp
    ELSE IF RLt(dist_to_end, eff.down) THEN RampDown
    ELSE Steady

\* needs_segmentation that looks at the ramp-up zone only
needs_segmentation_ramp_up_only(cfg, move, move_start_dist, total, eff) ==
    RLt(move_start_dist, eff.up) /\ RLt(cfg.segment_resolution, move.length)

\* needs_segmentation that subdivides the moves shorter than the resolution
needs_segmentation_short_moves(cfg, move, move_start_dist, total, eff) ==
    LET move_end_dist == RAdd(move_start_dist, move.length)
        in_ramp_up == RLt(move_start_dist, eff.up)
        in_ramp_down == RLt(RSub(total, eff.down), move_end_dist)
    IN  (in_ramp_up \/ in_ramp_down) /\ RLt(move.length, cfg.segment_resolution)

needs_segmentation(cfg, move, move_start_dist, total, eff) ==
    LET move_end_dist == RAdd(move_start_dist, move.length)
        in_ramp_up == RLt(move_start_dist, eff.up)
        in_ramp_down == RLt(RSub(total, eff.down), move_end_dist)
    IN  (in_ramp_up \/ in_ramp_down) /\ RLt(cfg.segment_resolution, move.length)

\* num_segments without the minimum of 2
num_segments_no_minimum(cfg, move) == RTrunc(RDiv(move.length, cfg.segment_resolution))

num_segments(cfg, move) ==
    LET n == RTrunc(RDiv(move.length, cfg.segment_resolution))
    IN  IF n > 2 THEN n ELSE 2

\* SegmentCommand that emits the start of the sub-segment (t0) as its target
SegmentCommand_start_point(cfg, move, move_start_dist, total, eff, n, seg_idx) ==
    LET t0 == Rat(seg_idx, n)
        t1 == Rat(seg_idx + 1, n)
        t_mid == RDiv(RAdd(t0, t1), RInt(2))
        seg_dist == RAdd(move_start_dist, RMul(move.length, t_mid))
        seg_dist_to_end == RSub(total, seg_dist)
        speed_factor == FlooredFactor(cfg, seg_dist, seg_dist_to_end, eff)
        sp == move.start_point
        ep == move.end_point
    IN  generate_segment_command(
            RAdd(sp.x, RMul(RSub(ep.x, sp.x), t0)),
            RAdd(sp.y, RMul(RSub(ep.y, sp.y), t0)),
            RAdd(sp.z, RMul(RSub(ep.z, sp.z), t0)),
            RDiv(move.extrusion, RInt(n)),
            RMul(move.feedrate, speed_factor),
            PhaseAt(seg_dist, seg_dist_to_end, eff), speed_factor,
            Has(move.command.params, "Z"))

\* the commands of one sub-segment of a segmented move (seg_idx from 0)
SegmentCommand(cfg, move, move_start_dist, total, eff, n, seg_idx) ==
    LET t0 == Rat(seg_idx, n)
        t1 == Rat(seg_idx + 1, n)
        t_mid == RDiv(RAdd(t0, t1), RInt(2))
        seg_dist == RAdd(move_start_dist, RMul(move.length, t_mid))
        seg_dist_to_end == RSub(total, seg_dist)
        speed_factor == FlooredFactor(cfg, seg_dist, seg_dist_to_end, eff)
        sp == move.start_point
        ep == move.end_point
    IN  generate_segment_command(
            RAdd(sp.x, RMul(RSub(ep.x, sp.x), t1)),
            RAdd(sp.y, RMul(RSub(ep.y, sp.y), t1)),
            RAdd(sp.z, RMul(RSub(ep.z, sp.z), t1)),
            RDiv(move.extrusion, RInt(n)),
            RMul(move.feedrate, speed_factor),
            PhaseAt(seg_dist, seg_dist_to_end, eff), speed_factor,
            Has(move.command.params, "Z"))

\* RewrittenCommand whose speed factor is taken at the start of the move
RewrittenCommand_at_start(cfg, move, move_start_dist, total, eff) ==
    LET dist_mid == move_start_dist
        dist_to_end == RSub(total, dist_mid)
        speed_factor == FlooredFactor(cfg, dist_mid, dist_to_end, eff)
        tag == PhaseAt(dist_mid, dist_to_end, eff)
        phase == IF tag = Steady THEN Steady ELSE tag \o <<" ">> \o Percent(speed_factor)
        original_comment == IF Truthy(move.command.comment) THEN move.command.comment[1] ELSE <<>>
        new_comment == IF original_comment /= <<>>
                       THEN original_comment \o <<" ", ";", " ">> \o phase
                       ELSE phase
    IN  GCodeCommand(move.command.line_number, move.command.raw_line, Some(G1),
                     Put(move.command.params, "F", RMul(move.feedrate, speed_factor)),
                     Some(new_comment), TRUE)

\* the command that replaces a move that is not segmented
RewrittenCommand(cfg, move, move_start_dist, total, eff) ==
    LET dist_mid == RAdd(move_start_dist, RDiv(move.length, RInt(2)))
        dist_to_end == RSub(total, dist_mid)
        speed_factor == FlooredFactor(cfg, dist_mid, dist_to_end, eff)
        tag == PhaseAt(dist_mid, dist_to_end, eff)
        phase == IF tag = Steady THEN Steady ELSE tag \o <<" ">> \o Percent(speed_factor)
        original_comment == IF Truthy(move.command.comment) THEN move.command.comment[1] ELSE <<>>
        new_comment == IF original_comment /= <<>>
                       THEN original_comment \o <<" ", ";", " ">> \o phase
                       ELSE phase
    IN  GCodeCommand(move.command.line_number, move.command.raw_line, Some(G1),
                     Put(move.command.params, "F", RMul(move.feedrate, speed_factor)),
                     Some(new_comment), TRUE)

\* the commands emitted for one move of a path (one iteration of the loop
\* of _apply_smoothing_to_path)
RenderMove(cfg, move, move_start_dist, total, eff) ==
    IF needs_segmentation(cfg, move, move_start_dist, total, eff)
    THEN LET n == num_segments(cfg, move)
         IN  [k \in 1..n |-> SegmentCommand(cfg, move, move_start_dist, total, eff, n, k - 1)]
    ELSE <<RewrittenCommand(cfg, move, move_start_dist, total, eff)>>

\* cumulative_distance before move i
CumulativeDistance(path, i) == RSum([j \in 1..(i - 1) |-> path.moves[j].length])

EffectiveRamps(cfg, path) ==
    calculate_effective_ramps(total_length(path), cfg.ramp_up_length, cfg.ramp_down_length)

\* per move of the path, the commands emitted for it
RenderedMoves(cfg, path) ==
    [i \in DOMAIN path.moves |->
        RenderMove(cfg, path.moves[i], CumulativeDistance(path, i),
                   total_length(path), EffectiveRamps(cfg, path))]

RECURSIVE Flatten(_)
Flatten(ss) == IF ss = <<>> THEN <<>> ELSE Flatten(Take(ss, Len(ss) - 1)) \o ss[Len(ss)]

SmoothingStart == <<"P", "R", "E", "S", "S", "U", "R", "E", "_", "S", "M", "O", "O", "T", "H",
                    "I", "N", "G", "_", "S", "T", "A", "R", "T">>
SmoothingEnd == <<"P", "R", "E", "S", "S", "U", "R", "E", "_", "S", "M", "O", "O", "T", "H",
                  "I", "N", "G", "_", "E", "N", "D">>

StartComment(path) ==
    SmoothingStart \o <<":", " ">> \o path.feature_type
        \o <<",", " ", "l", "e", "n", "g", "t", "h", "=">>
        \o FormatFixed(total_length(path), 2) \o <<"m", "m">>

RampsComment(cfg, eff) ==
    <<"R", "a", "m", "p", "s", ":", " ", "u", "p", "=">> \o FormatFixed(eff.up, 2)
        \o <<"m", "m", " ", "(">> \o cfg.ramp_up_curve
        \o <<")", ",", " ", "d", "o", "w", "n", "=">> \o FormatFixed(eff.down, 2)
        \o <<"m", "m", " ", "(">> \o cfg.ramp_down_curve \o <<")">>

CommentCommand(text) == GCodeCommand(0, <<>>, None, <<>>, Some(text), TRUE)

\* _apply_smoothing_to_path raises ZeroDivisionError at move.length / resolution
apply_smoothing_raises(cfg, path) ==
    /\ cfg.segment_resolution = RZero
    /\ \E i \in DOMAIN path.moves :
          needs_segmentation(cfg, path.moves[i], CumulativeDistance(path, i),
                             total_length(path), EffectiveRamps(cfg, path))

apply_smoothing_to_path(cfg, path) ==
    <<CommentCommand(StartComment(path)),
      CommentCommand(RampsComment(cfg, EffectiveRamps(cfg, path)))>>
    \o Flatten(RenderedMoves(cfg, path))
    \o <<CommentCommand(SmoothingEnd)>>

(***************************************************************************)
(* Bounds and inputs of the model.                                         *)
(***************************************************************************)
\* longest input file, in lines
MaxLines == 3

LabelA == <<"A">>
LabelB == <<"B">>

\* the lines an input file is made of
LineExtrudeF == <<"G", "1", " ", "X", "2", " ", "E", "1", " ", "F", "6", "0", "0", "\n">>
LineExtrude == <<"G", "1", " ", "X", "4", " ", "E", "2", "\n">>
LineShort == <<"G", "1", " ", "Y", ".", "5", " ", "E", "3", "\n">>
LineTravel == <<"G", "0", " ", "X", "0", " ", "Y", "0", "\n">>
LineFeed == <<"G", "1", " ", "F", "3", "0", "0", "\n">>
LineRelative == <<"M", "8", "3", "\n">>
LineTypeA == <<";", "T", "Y", "P", "E", ":", "A", "\n">>
LineExtrudeTypeB == <<"g", "1", " ", "X", "1", " ", "E", "4", " ", ";", " ", "t", "y", "p", "e",
                      ":", "B", "\n">>
LineMalformed == <<"G", "1", " ", "X", ".", "5", ".", "3", "\n">>

Lines == {LineExtrudeF, LineExtrude, LineShort, LineTravel, LineFeed, LineRelative,
          LineTypeA, LineExtrudeTypeB, LineMalformed}

\* the configurations a run is started with
ConfigLinear ==
    ProcessorConfig(ROne, ROne, LINEAR, QUADRATIC, ROne, Rat(1, 4), ROne, Some(<<LabelA, Unknown>>))
ConfigScurve ==
    ProcessorConfig(RInt(2), RZero, SCURVE, LOGARITHMIC, RZero, ROne, Rat(3, 2), Some(<<>>))
Configs == {DefaultConfig, ConfigLinear, ConfigScurve}

(***************************************************************************)
(* State of one run of GCodeProcessor.process_file.                        *)
(***************************************************************************)
VARIABLES
    pc,               \* position in process_file
    config,           \* GCodeProcessor.config
    commands,         \* the parsed commands
    cmd_index,        \* number of commands the current loop has handled
    state,            \* PathAnalyzer.state
    paths,            \* analyze: paths
    current_path,     \* analyze: current_path
    line_to_path,     \* process_file: line number -> index in paths
    processed_paths,  \* process_file: start lines of the paths rendered
    output_commands,  \* process_file: output_commands
    out_src,          \* per output command: the path and move it renders
    stats,            \* GCodeProcessor.stats
    out_file,         \* the lines written by write_gcode
    args,             \* arguments of a library function called on its own
    result            \* its return value

vars == <<pc, config, commands, cmd_index, state, paths, current_path, line_to_path,
          processed_paths, output_commands, out_src, stats, out_file, args, result>>

\* GCodeProcessor(config) followed by the start of process_file
Init ==
    /\ pc = "parse"
    /\ config \in Configs
    /\ commands = <<>>
    /\ cmd_index = 0
    /\ state = MachineState0
    /\ paths = <<>>
    /\ current_path = None
    /\ line_to_path = <<>>
    /\ processed_paths = {}
    /\ output_commands = <<>>
    /\ out_src = <<>>
    /\ stats = ProcessingStats0
    /\ out_file = <<>>
    /\ args = <<>>
    /\ result = <<>>

\* parse_file: one iteration of the loop over the lines of the file, for a
\* file of at most max lines
ReadLineUpTo(line, max) ==
    /\ pc = "parse"
    /\ Len(commands) < max
    /\ ~parse_line_raises(line)
    /\ commands' = Append(commands, parse_line(line, Len(commands) + 1))
    /\ UNCHANGED <<pc, config, cmd_index, state, paths, current_path, line_to_path,
                   processed_paths, output_commands, out_src, stats, out_file, args, result>>

ReadLine(line) == ReadLineUpTo(line, MaxLines)

\* parse_file: float() raises ValueError and the run ends without output
ReadLineFails(line) ==
    /\ pc = "parse"
    /\ Len(commands) < MaxLines
    /\ parse_line_raises(line)
    /\ pc' = "failed"
    /\ UNCHANGED <<config, commands, cmd_index, state, paths, current_path, line_to_path,
                   processed_paths, output_commands, out_src, stats, out_file, args, result>>

\* PathAnalyzer.reset that keeps the tracker of the call before
reset_kept(st) == st

\* PathAnalyzer.reset: "self.state = MachineState()"
reset(st) == MachineState0

\* parse_file returns; analyze resets the tracker and starts with no paths
EndOfFile ==
    /\ pc = "parse"
    /\ pc' = "analyze"
    /\ stats' = [stats EXCEPT !.input_lines = Len(commands)]
    /\ state' = reset(state)
    /\ paths' = <<>>
    /\ current_path' = None
    /\ cmd_index' = 0
    /\ UNCHANGED <<config, commands, line_to_path,
                   processed_paths, output_commands, out_src, out_file, args, result>>

\* analyze: one iteration of the loop over the commands
AnalyzeStep ==
    /\ pc = "analyze"
    /\ cmd_index < Len(commands)
    /\ LET r == analyze_step(state, paths, current_path, commands[cmd_index + 1])
       IN  /\ state' = r.state
           /\ paths' = r.paths
           /\ current_path' = r.current_path
    /\ cmd_index' = cmd_index + 1
    /\ UNCHANGED <<pc, config, commands, line_to_path, processed_paths, output_commands,
                   out_src, stats, out_file, args, result>>

\* analyze: the last open path is closed and the paths are returned
AnalyzeFinish ==
    /\ pc = "analyze"
    /\ cmd_index = Len(commands)
    /\ paths' = PathsAfterClose(paths, current_path)
    /\ stats' = [stats EXCEPT !.paths_found = Len(paths')]
    /\ pc' = "select"
    /\ UNCHANGED <<config, commands, cmd_index, state, current_path, line_to_path,
                   processed_paths, output_commands, out_src, out_file, args, result>>

\* the paths of ps that are rendered
Qualifying(cfg, ps) == {k \in DOMAIN ps : should_process_path(cfg, ps[k])}
MoveLines(path) == {path.moves[i].command.line_number : i \in DOMAIN path.moves}

\* process_file step 3: the loop that fills line_to_path (a later path
\* overwrites the entry of an earlier one)
BuildLineToPath(cfg, ps) ==
    LET q == Qualifying(cfg, ps)
        lines == UNION {MoveLines(ps[k]) : k \in q}
    IN  [ln \in lines |->
            CHOOSE k \in q : /\ ln \in MoveLines(ps[k])
                             /\ \A j \in q : ln \in MoveLines(ps[j]) => j <= k]

SelectPaths ==
    /\ pc = "select"
    /\ line_to_path' = BuildLineToPath(config, paths)
    /\ LET q == Qualifying(config, paths)
       IN  stats' = [stats EXCEPT
                !.paths_processed = @ + Cardinality(q),
                !.paths_skipped = @ + Len(paths) - Cardinality(q),
                !.total_path_length =
                    RAdd(@, RSum([k \in DOMAIN paths |->
                                    IF k \in q THEN total_length(paths[k]) ELSE RZero]))]
    /\ output_commands' = <<>>
    /\ out_src' = <<>>
    /\ processed_paths' = {}
    /\ cmd_index' = 0
    /\ pc' = "output"
    /\ UNCHANGED <<config, commands, state, paths, current_path, out_file, args, result>>

\* for the commands rendered for a path: the path and the move each renders
RenderedSources(cfg, path) ==
    LET rendered == RenderedMoves(cfg, path)
        comment == [path |-> path.start_line, move |-> 0]
    IN  <<comment, comment>>
        \o Flatten([i \in DOMAIN rendered |->
                       [k \in DOMAIN rendered[i] |-> [path |-> path.start_line, move |-> i]]])
        \o <<comment>>

\* no command taken as the first of its path
first_encounter_never(path_id, processed) == FALSE

\* a path rendered again at each of its commands
first_encounter_always(path_id, processed) == TRUE

\* a rendered block put in front of the output
extend_output_front(out, smoothed_commands) == smoothed_commands \o out

\* "if path_id not in processed_paths"
first_encounter(path_id, processed) == path_id \notin processed

\* output_commands.extend(smoothed_commands)
extend_output(out, smoothed_commands) == out \o smoothed_commands

\* process_file step 4: one iteration of the loop over the commands
OutputStep ==
    /\ pc = "output"
    /\ cmd_index < Len(commands)
    /\ LET cmd == commands[cmd_index + 1]
           owned == cmd.line_number \in DOMAIN line_to_path
           path == paths[line_to_path[cmd.line_number]]
       IN  IF owned /\ first_encounter(path.start_line, processed_paths)
           THEN IF apply_smoothing_raises(config, path)
                THEN /\ pc' = "failed"
                     /\ UNCHANGED <<cmd_index, processed_paths, output_commands, out_src>>
                ELSE /\ processed_paths' = processed_paths \cup {path.start_line}
                     /\ output_commands' =
                            extend_output(output_commands, apply_smoothing_to_path(config, path))
                     /\ out_src' = extend_output(out_src, RenderedSources(config, path))
                     /\ cmd_index' = cmd_index + 1
                     /\ pc' = pc
           ELSE IF owned
           THEN /\ cmd_index' = cmd_index + 1
                /\ UNCHANGED <<pc, processed_paths, output_commands, out_src>>
           ELSE /\ output_commands' = Append(output_commands, cmd)
                /\ out_src' = Append(out_src, [path |-> 0, move |-> 0])
                /\ cmd_index' = cmd_index + 1
                /\ UNCHANGED <<pc, processed_paths>>
    /\ UNCHANGED <<config, commands, state, paths, current_path, line_to_path, stats,
                   out_file, args, result>>

\* process_file step 5: write_gcode
WriteOutput ==
    /\ pc = "output"
    /\ cmd_index = Len(commands)
    /\ stats' = [stats EXCEPT !.output_lines = Len(output_commands)]
    /\ out_file' = [i \in DOMAIN output_commands |-> to_gcode(output_commands[i]) \o <<"\n">>]
    /\ pc' = "done"
    /\ UNCHANGED <<config, commands, cmd_index, state, paths, current_path, line_to_path,
                   processed_paths, output_commands, out_src, args, result>>

Next ==
    \/ \E line \in Lines : ReadLine(line)
    \/ \E line \in Lines : ReadLineFails(line)
    \/ EndOfFile
    \/ AnalyzeStep
    \/ AnalyzeFinish
    \/ SelectPaths
    \/ OutputStep
    \/ WriteOutput

Spec == Init /\ [][Next]_vars

(***************************************************************************)
(* The detector on its own: parse_file and analyze over longer files of    *)
(* feature labels and extruding moves.                                     *)
(***************************************************************************)
MaxDetectLines == 5

LineTypeB == <<";", "T", "Y", "P", "E", ":", "B", "\n">>
DetectLines == {LineTypeA, LineTypeB, LineExtrudeF, LineExtrude, LineShort,
                LineExtrudeTypeB}

InitDetect == Init /\ config = DefaultConfig

ReadDetectLine(line) == ReadLineUpTo(line, MaxDetectLines)

NextDetect ==
    \/ \E line \in DetectLines : ReadDetectLine(line)
    \/ EndOfFile
    \/ AnalyzeStep
    \/ AnalyzeFinish

SpecDetect == InitDetect /\ [][NextDetect]_vars

(***************************************************************************)
(* calculate_effective_ramps called on its own, on path lengths in         *)
(* quarters and ramp lengths in halves of a millimetre.                    *)
(***************************************************************************)
MaxSteps == 10

RampInputs ==
    [path_length : {Rat(n, 4) : n \in 0..MaxSteps},
     up : {Rat(n, 2) : n \in 0..MaxSteps},
     down : {Rat(n, 2) : n \in 0..MaxSteps}]

InitRamps ==
    /\ pc = "call"
    /\ args \in RampInputs
    /\ result = <<>>
    /\ config = DefaultConfig
    /\ commands = <<>>
    /\ cmd_index = 0
    /\ state = MachineState0
    /\ paths = <<>>
    /\ current_path = None
    /\ line_to_path = <<>>
    /\ processed_paths = {}
    /\ output_commands = <<>>
    /\ out_src = <<>>
    /\ stats = ProcessingStats0
    /\ out_file = <<>>

CallEffectiveRamps ==
    /\ pc = "call"
    /\ result' = calculate_effective_ramps(args.path_length, args.up, args.down)
    /\ pc' = "returned"
    /\ UNCHANGED <<config, commands, cmd_index, state, paths, current_path, line_to_path,
                   processed_paths, output_commands, out_src, stats, out_file, args>>

NextRamps == CallEffectiveRamps

SpecRamps == InitRamps /\ [][NextRamps]_vars

\* the variables of process_file while a library function is called on its own
NoRun ==
    /\ config = DefaultConfig
    /\ commands = <<>>
    /\ cmd_index = 0
    /\ state = MachineState0
    /\ paths = <<>>
    /\ current_path = None
    /\ line_to_path = <<>>
    /\ processed_paths = {}
    /\ output_commands = <<>>
    /\ out_src = <<>>
    /\ stats = ProcessingStats0
    /\ out_file = <<>>

(***************************************************************************)
(* The speed profile of _apply_smoothing_to_path on its own: the ramps     *)
(* resolved for a path length, then the floored speed factor at distances  *)
(* along the path.                                                         *)
(***************************************************************************)
\* longest path, in millimetres
MaxTotal == 10
\* distances sampled per zone
ProfileSteps == 4

ProfileInputs ==
    [total : {RInt(n) : n \in 1..MaxTotal},
     up : {RZero, Rat(1, 2), ROne, RInt(5)},
     down : {RZero, Rat(1, 2), ROne, RInt(4)},
     up_curve : CurveType,
     down_curve : CurveType,
     min_speed : {Rat(1, 10), Rat(1, 2), ROne}]

ProfileConfig(a) ==
    ProcessorConfig(a.up, a.down, a.up_curve, a.down_curve, ROne, a.min_speed, Rat(1, 2), None)

ProfileRamps(a) == calculate_effective_ramps(a.total, a.up, a.down)

\* distances along the path: fractions of the path, of the ramp-up zone and
\* of the ramp-down zone, ends included
ProfileSamples(a) ==
    LET eff == ProfileRamps(a)
    IN  {RMul(a.total, Rat(n, 2 * ProfileSteps)) : n \in 0..(2 * ProfileSteps)}
        \cup {RMul(eff.up, Rat(n, ProfileSteps)) : n \in 0..ProfileSteps}
        \cup {RSub(a.total, RMul(eff.down, Rat(n, ProfileSteps))) : n \in 0..ProfileSteps}

InitProfile ==
    /\ pc = "profile"
    /\ args \in ProfileInputs
    /\ result = <<>>
    /\ NoRun

\* effective ramps, then speed_factor = max(calculate_speed_factor(...),
\* min_speed_ratio) at each sampled distance
CallSpeedProfile ==
    /\ pc = "profile"
    /\ result' = [d \in ProfileSamples(args) |->
                     FlooredFactor(ProfileConfig(args), d, RSub(args.total, d),
                                   ProfileRamps(args))]
    /\ pc' = "profiled"
    /\ UNCHANGED <<config, commands, cmd_index, state, paths, current_path, line_to_path,
                   processed_paths, output_commands, out_src, stats, out_file, args>>

NextProfile == CallSpeedProfile

SpecProfile == InitProfile /\ [][NextProfile]_vars

(***************************************************************************)
(* process_file called three times on one GCodeProcessor (and so analyze   *)
(* three times on its PathAnalyzer): on a first file, on another file and  *)
(* on the first file again.  result collects what each call returns.       *)
(***************************************************************************)
\* longest file of a call, in lines
MaxRunLines == 2

RunLines == {LineExtrudeF, LineRelative, LineTravel}

RunFiles == UNION {[1..n -> RunLines] : n \in 0..MaxRunLines}

RunInputs(a) == <<a.first, a.other, a.first>>

\* the file of the call that is running
RunFile == RunInputs(args)[Len(result) + 1]

InitAgain ==
    /\ pc = "start"
    /\ args \in [first : RunFiles, other : RunFiles]
    /\ result = <<>>
    /\ NoRun

\* process_file: "self.stats = ProcessingStats()", then parse_file
StartRun ==
    /\ pc = "start"
    /\ Len(result) < Len(RunInputs(args))
    /\ stats' = ProcessingStats0
    /\ commands' = <<>>
    /\ pc' = "parse"
    /\ UNCHANGED <<config, cmd_index, state, paths, current_path, line_to_path,
                   processed_paths, output_commands, out_src, out_file, args, result>>

ReadRunLine ==
    /\ pc = "parse"
    /\ Len(commands) < Len(RunFile)
    /\ ReadLineUpTo(RunFile[Len(commands) + 1], MaxRunLines)

EndOfRunFile ==
    /\ pc = "parse"
    /\ Len(commands) = Len(RunFile)
    /\ EndOfFile

\* process_file returns self.stats (the paths are kept for comparison)
ReturnStats ==
    /\ pc = "done"
    /\ result' = Append(result, [paths |-> paths, stats |-> stats])
    /\ pc' = "start"
    /\ UNCHANGED <<config, commands, cmd_index, state, paths, current_path, line_to_path,
                   processed_paths, output_commands, out_src, stats, out_file, args>>

NextAgain ==
    \/ StartRun
    \/ ReadRunLine
    \/ EndOfRunFile
    \/ AnalyzeStep
    \/ AnalyzeFinish
    \/ SelectPaths
    \/ OutputStep
    \/ WriteOutput
    \/ ReturnStats

SpecAgain == InitAgain /\ [][NextAgain]_vars

(***************************************************************************)
(* apply_curve called on its own, with a progress inside and outside       *)
(* [0, 1] and with a kind that is no member of CurveType.                  *)
(***************************************************************************)
\* progress values are multiples of 1 / CurveSteps, from -1 to 2
CurveSteps == 8

\* a curve_type that apply_curve does not know
UnrecognisedKind ==     <<"s", "p", "l", "i", "n", "e">>

CurveInputs ==
    [progress : {Rat(n, CurveSteps) : n \in (-CurveSteps)..(2 * CurveSteps)} \cup {Rat(1, 2)},
     curve_type : CurveType \cup {UnrecognisedKind}]

InitCurve ==
    /\ pc = "curve"
    /\ args \in CurveInputs
    /\ result = <<>>
    /\ NoRun

CallApplyCurve ==
    /\ pc = "curve"
    /\ result' = apply_curve(args.progress, args.curve_type)
    /\ pc' = "shaped"
    /\ UNCHANGED <<config, commands, cmd_index, state, paths, current_path, line_to_path,
                   processed_paths, output_commands, out_src, stats, out_file, args>>

NextCurve == CallApplyCurve

SpecCurve == InitCurve /\ [][NextCurve]_vars

(***************************************************************************)
(* calculate_speed_factor called on its own, with ramps of any length: the *)
(* two zones may overlap, which the ramps resolved for a path never do.    *)
(***************************************************************************)
\* longest distance, in half millimetres
MaxHalves == 6

FactorInputs ==
    [distance_from_start : {Rat(n, 2) : n \in 0..MaxHalves},
     distance_to_end : {Rat(n, 2) : n \in 0..MaxHalves},
     ramp_up_length : {RZero, ROne, RInt(2), RInt(4)},
     ramp_down_length : {RZero, ROne, RInt(2), RInt(4)},
     ramp_up_curve : CurveType,
     ramp_down_curve : CurveType]

InitFactor ==
    /\ pc = "factor"
    /\ args \in FactorInputs
    /\ result = <<>>
    /\ NoRun

CallSpeedFactor ==
    /\ pc = "factor"
    /\ result' = calculate_speed_factor(args.distance_from_start, args.distance_to_end,
                                        args.ramp_up_length, args.ramp_down_length,
                                        args.ramp_up_curve, args.ramp_down_curve)
    /\ pc' = "factored"
    /\ UNCHANGED <<config, commands, cmd_index, state, paths, current_path, line_to_path,
                   processed_paths, output_commands, out_src, stats, out_file, args>>

NextFactor == CallSpeedFactor

SpecFactor == InitFactor /\ [][NextFactor]_vars

(***************************************************************************)
(* _apply_smoothing_to_path called on its own, on the first path that      *)
(* analyze finds in a one-path file.                                       *)
(***************************************************************************)
parse_file(lines) == [i \in DOMAIN lines |-> parse_line(lines[i], i)]

RECURSIVE AnalyzeLoop(_, _, _, _)
AnalyzeLoop(st, ps, cur, cmds) ==
    IF cmds = <<>> THEN PathsAfterClose(ps, cur)
    ELSE LET r == analyze_step(st, ps, cur, Head(cmds))
         IN  AnalyzeLoop(r.state, r.paths, r.current_path, Tail(cmds))

analyze(cmds) == AnalyzeLoop(MachineState0, <<>>, None, cmds)

\* a straight move of 10 mm at feed 1200
LineScenario ==
    <<"G", "1", " ", "X", "1", "0", " ", "E", "1", " ", "F", "1", "2", "0", "0", "\n">>
\* an extruding move that does not leave the origin
LineZeroLength ==
    <<"G", "1", " ", "X", "0", " ", "E", "1", "\n">>
\* a move whose values have more decimals than to_gcode prints
LineDecimals ==
    <<"G", "1", " ", "X", ".", "0", "0", "0", "4", " ", "Z", ".", "2", "5", " ", "E", ".", "1",
      "2", "3", "4", "5", "6", " ", "F", "6", "0", ".", "5", "7", " ", "A", "7", " ", ";", " ",
      "o", "u", "t", "e", "r", "\n">>

\* a move of 5 mm that climbs 1 mm
LineDiagonal ==
    <<"G", "1", " ", "X", "3", " ", "Y", "4", " ", "Z", "1", " ", "E", "1", " ", "F", "6", "0",
      "0", "\n">>

RenderFiles ==
    {<<LineScenario>>, <<LineZeroLength>>, <<LineDecimals>>, <<LineDiagonal>>,
     <<LineExtrudeF, LineExtrude>>, <<LineRelative, LineExtrude, LineShort>>}

RenderPaths == {analyze(parse_file(file))[1] : file \in RenderFiles}

RenderCurves == {<<LINEAR, LINEAR>>, <<SIGMOID, EXPONENTIAL>>, <<SCURVE, QUADRATIC>>}

RenderConfigs ==
    {ProcessorConfig(up, down, curves[1], curves[2], ROne, min_speed, resolution, None) :
        up \in {RZero, ROne, RInt(5)}, down \in {RZero, ROne, RInt(4)},
        curves \in RenderCurves, min_speed \in {Rat(1, 10), ROne},
        resolution \in {RZero, Rat(1, 2), Rat(3, 2)}}

InitRender ==
    /\ pc = "render"
    /\ args \in [cfg : RenderConfigs, path : RenderPaths]
    /\ result = <<>>
    /\ NoRun

\* _apply_smoothing_to_path(path): returns the commands or raises; out_src
\* records the move that each returned command renders
CallApplySmoothing ==
    /\ pc = "render"
    /\ IF apply_smoothing_raises(args.cfg, args.path)
       THEN pc' = "raised" /\ result' = result /\ out_src' = out_src
       ELSE /\ pc' = "rendered"
            /\ result' = apply_smoothing_to_path(args.cfg, args.path)
            /\ out_src' = RenderedSources(args.cfg, args.path)
    /\ UNCHANGED <<config, commands, cmd_index, state, paths, current_path, line_to_path,
                   processed_paths, output_commands, stats, out_file, args>>

NextRender == CallApplySmoothing

SpecRender == InitRender /\ [][NextRender]_vars

(***************************************************************************)
(* main(): the configuration is built from the command-line values as they *)
(* are given and handed to process_file.                                   *)
(***************************************************************************)
MaxCliLines == 2

CliLines == {LineExtrudeF, LineExtrude, LineTravel}

\* --ramp-up, --ramp-down and --min-speed take any float
CliConfigs ==
    {ProcessorConfig(ramp_up, ramp_down, SIGMOID, EXPONENTIAL, ROne, min_speed, Rat(1, 2), None) :
        ramp_up \in {RInt(-1), RInt(5)}, ramp_down \in {RInt(-1), RInt(4)},
        min_speed \in {RZero, Rat(1, 10), Rat(3, 2)}}

InitCli ==
    /\ pc = "parse"
    /\ config \in CliConfigs
    /\ commands = <<>>
    /\ cmd_index = 0
    /\ state = MachineState0
    /\ paths = <<>>
    /\ current_path = None
    /\ line_to_path = <<>>
    /\ processed_paths = {}
    /\ output_commands = <<>>
    /\ out_src = <<>>
    /\ stats = ProcessingStats0
    /\ out_file = <<>>
    /\ args = <<>>
    /\ result = <<>>

ReadCliLine(line) == ReadLineUpTo(line, MaxCliLines)

NextCli ==
    \/ \E line \in CliLines : ReadCliLine(line)
    \/ EndOfFile
    \/ AnalyzeStep
    \/ AnalyzeFinish
    \/ SelectPaths
    \/ OutputStep
    \/ WriteOutput

SpecCli == InitCli /\ [][NextCli]_vars

(***************************************************************************)
(* Runs over files of moves, mode switches and other opcodes, with the     *)
(* default configuration.                                                  *)
(***************************************************************************)
MaxTrackLines == 3

\* G0 with a planar axis and E
LineTravelE ==
    <<"G", "0", " ", "X", "1", " ", "E", "5", "\n">>
\* G1 with E and no planar axis
LineEOnly ==
    <<"G", "1", " ", "E", "3", "\n">>
LineAbsolute ==
    <<"M", "8", "2", "\n">>
\* an opcode the tracker does not know, with the parameters of a move
LineOther ==
    <<"G", "2", " ", "X", "9", " ", "E", "9", " ", "F", "9", " ", ";", " ", "a", "r", "c",
      "\n">>
\* an opcode the tracker does not know, with a feature label
LineOtherLabel ==
    <<"M", "1", "1", "7", " ", ";", "T", "Y", "P", "E", ":", "A", "\n">>

TrackLines == {LineExtrudeF, LineExtrude, LineShort, LineTravelE, LineEOnly, LineRelative,
               LineAbsolute, LineOther, LineOtherLabel}

ReadTrackLine(line) == ReadLineUpTo(line, MaxTrackLines)

NextTrack ==
    \/ \E line \in TrackLines : ReadTrackLine(line)
    \/ EndOfFile
    \/ AnalyzeStep
    \/ AnalyzeFinish
    \/ SelectPaths
    \/ OutputStep
    \/ WriteOutput

SpecTrack == InitDetect /\ [][NextTrack]_vars

(***************************************************************************)
(* parse_file and analyze over files of moves and of the events that end a *)
(* path: labels, wipe markers, mode switches, resets and travels.          *)
(***************************************************************************)
MaxBoundLines == 3

\* G92 that supplies two of the four axes
LineReset ==
    <<"G", "9", "2", " ", "E", "0", " ", "X", "7", "\n">>
\* an extruding G1 whose comment holds a wipe marker
LineWipeMove ==
    <<"G", "1", " ", "X", "3", " ", "E", "9", " ", "F", "1", "0", "0", " ", ";", "W", "I", "P",
      "E", "_", "E", "N", "D", "\n">>
\* a G92 whose comment holds a wipe marker
LineWipeReset ==
    <<"G", "9", "2", " ", "E", "8", " ", ";", " ", "W", "I", "P", "E", "_", "S", "T", "A", "R",
      "T", "\n">>
\* a G1 that moves Z only
LineLift ==
    <<"G", "1", " ", "Z", ".", "2", "\n">>

\* a retraction: E only, below the tracker's e
LineRetract == <<"G", "1", " ", "E", "-", "1", "\n">>

BoundLines == {LineExtrudeF, LineExtrude, LineReset, LineRelative, LineWipeMove, LineWipeReset,
               LineLift, LineFeed, LineTravel, LineEOnly, LineTypeA, LineExtrudeTypeB,
               LineRetract}

ReadBoundLine(line) == ReadLineUpTo(line, MaxBoundLines)

NextBound ==
    \/ \E line \in BoundLines : ReadBoundLine(line)
    \/ EndOfFile
    \/ AnalyzeStep
    \/ AnalyzeFinish

SpecBound == InitDetect /\ [][NextBound]_vars

(***************************************************************************)
(* Vocabulary of the properties.                                           *)
(***************************************************************************)
\* the tracker state once analyze has handled the first n commands
RECURSIVE TrackerAt(_, _)
TrackerAt(cmds, n) ==
    IF n = 0 THEN MachineState0
    ELSE analyze_step(TrackerAt(cmds, n - 1), <<>>, None, cmds[n]).state

\* the tracker state after the machine has executed cmds from st
RECURSIVE Replay(_, _)
Replay(st, cmds) ==
    IF cmds = <<>> THEN st
    ELSE update_from_command(Replay(st, Take(cmds, Len(cmds) - 1)), cmds[Len(cmds)])

Rendered(k) == paths[k].start_line \in processed_paths
BlockIndexes(k) == {j \in DOMAIN out_src : out_src[j].path = paths[k].start_line}
Min(S) == CHOOSE x \in S : \A y \in S : x <= y
Max(S) == CHOOSE x \in S : \A y \in S : y <= x
BlockOf(k) == SubSeq(output_commands, Min(BlockIndexes(k)), Max(BlockIndexes(k)))
PathWithStart(ln) == paths[CHOOSE k \in DOMAIN paths : paths[k].start_line = ln]
SourceMove(j) == PathWithStart(out_src[j].path).moves[out_src[j].move]
QualifyingMoveLines == UNION {MoveLines(paths[k]) : k \in Qualifying(config, paths)}
\* the input line whose handling emitted output command j
EmitLine(j) == IF out_src[j].path = 0 THEN output_commands[j].line_number ELSE out_src[j].path
Emitting == pc \in {"output", "done"}

IsStart(c) ==
    /\ c.modified
    /\ c.command = None
    /\ Truthy(c.comment)
    /\ StartsWithAt(c.comment[1], 1, SmoothingStart \o <<":">>)
IsEnd(c) == c.modified /\ c.command = None /\ c.comment = Some(SmoothingEnd)
IsEmittedMove(c) == c.modified /\ c.command /= None

(***************************************************************************)
(* C1  Conservation: for every rendered path, in absolute and in relative  *)
(* extrusion mode, the net extrusion of the emitted move commands, as the  *)
(* tracker interprets them from the state in force at the path's first     *)
(* move, equals the path's total_extrusion within 1e-6.                    *)
(***************************************************************************)
Tolerance == Rat(1, 1000000)

EmittedExtrusion(k) ==
    LET before == TrackerAt(commands, paths[k].start_line - 1)
    IN  RSub(Replay(before, BlockOf(k)).e, before.e)

Conservation ==
    \A k \in DOMAIN paths :
        Rendered(k) =>
            RLe(RAbs(RSub(EmittedExtrusion(k), total_extrusion(paths[k]))), Tolerance)

(***************************************************************************)
(* C2  Bounded speed: every move command emitted by the smoothing engine   *)
(* has F = feedrate * factor with min_speed_ratio <= factor <= 1, where    *)
(* feedrate is the F of the original command if it has one and the modal   *)
(* feedrate of the tracker otherwise.                                      *)
(***************************************************************************)
OriginalFeedrate(j) ==
    LET c == commands[SourceMove(j).command.line_number]
    IN  GetOr(c.params, "F", TrackerAt(commands, c.line_number - 1).f)

BoundedSpeed ==
    \A j \in DOMAIN output_commands :
        /\ IsEmittedMove(output_commands[j]) <=> out_src[j].move > 0
        /\ out_src[j].move > 0 =>
              LET F == Get(output_commands[j].params, "F")
                  feed == OriginalFeedrate(j)
              IN  /\ RLe(RMul(config.min_speed_ratio, feed), F)
                  /\ RLe(F, feed)

\* a sub-segment slowed below its modal feedrate, and one held by the floor
BoundedSpeedWitness ==
    /\ pc = "done"
    /\ \E j \in DOMAIN output_commands :
          /\ out_src[j].move > 0
          /\ ~Has(SourceMove(j).command.params, "F")
          /\ RLt(Get(output_commands[j].params, "F"), OriginalFeedrate(j))
    /\ \E j \in DOMAIN output_commands :
          /\ out_src[j].move > 0
          /\ RLt(config.min_speed_ratio, ROne)
          /\ Get(output_commands[j].params, "F")
                = RMul(config.min_speed_ratio, OriginalFeedrate(j))

(***************************************************************************)
(* C3  Passthrough: every command that is not a move of a qualifying path  *)
(* is emitted exactly once, and the text written for it is its original    *)
(* text.                                                                   *)
(***************************************************************************)
Passthrough ==
    pc = "done" =>
        \A i \in DOMAIN commands :
            i \notin QualifyingMoveLines =>
                /\ Cardinality({j \in DOMAIN output_commands :
                                    output_commands[j].line_number = i}) = 1
                /\ \A j \in DOMAIN output_commands :
                      output_commands[j].line_number = i =>
                          /\ output_commands[j] = commands[i]
                          /\ out_file[j] = commands[i].raw_line \o <<"\n">>

\* a move command copied through next to a rendered path
PassthroughWitness ==
    /\ pc = "done"
    /\ processed_paths /= {}
    /\ \E i \in DOMAIN commands :
          /\ i \notin QualifyingMoveLines
          /\ commands[i].command \in {Some(G0), Some(G1)}
          /\ \E j \in DOMAIN out_file : out_file[j] = commands[i].raw_line \o <<"\n">>

(***************************************************************************)
(* C4  A detected path is rendered iff total_length >= min_path_length and *)
(* (no target feature is configured or its label is a target feature);     *)
(* every move command of a path that is not rendered is copied unchanged,  *)
(* in place.                                                               *)
(***************************************************************************)
FeaturesConfigured == config.target_features /= None /\ config.target_features[1] /= <<>>

QualifiesAsClaimed(path) ==
    /\ RLe(config.min_path_length, total_length(path))
    /\ \/ ~FeaturesConfigured
       \/ \E i \in DOMAIN config.target_features[1] :
             config.target_features[1][i] = path.feature_type

InPlace(j, line) ==
    /\ \A j2 \in 1..(j - 1) : EmitLine(j2) < line
    /\ \A j2 \in (j + 1)..Len(output_commands) : EmitLine(j2) > line

FilterRule ==
    pc = "done" =>
        \A k \in DOMAIN paths :
            /\ Rendered(k) <=> QualifiesAsClaimed(paths[k])
            /\ Rendered(k) <=> BlockIndexes(k) /= {}
            /\ ~QualifiesAsClaimed(paths[k]) =>
                  \A m \in DOMAIN paths[k].moves :
                      \E j \in DOMAIN output_commands :
                          /\ output_commands[j] = paths[k].moves[m].command
                          /\ InPlace(j, paths[k].moves[m].command.line_number)

\* one path rendered and one, long enough, filtered by its label
FilterRuleWitness ==
    /\ pc = "done"
    /\ FeaturesConfigured
    /\ \E k \in DOMAIN paths : Rendered(k)
    /\ \E k \in DOMAIN paths :
          ~Rendered(k) /\ RLe(config.min_path_length, total_length(paths[k]))

(***************************************************************************)
(* C5  Exactly-once rendering: each qualifying path is rendered once, at   *)
(* the position of its first move command; later commands of the path emit *)
(* nothing; the output holds one START ... END block per qualifying path,  *)
(* blocks are not nested, and no original move command of a qualifying     *)
(* path is in the output.                                                  *)
(***************************************************************************)
Starts == {j \in DOMAIN output_commands : IsStart(output_commands[j])}
Ends == {j \in DOMAIN output_commands : IsEnd(output_commands[j])}
\* the qualifying paths whose first move the output loop has reached
Due == {k \in Qualifying(config, paths) : paths[k].start_line <= cmd_index}

ExactlyOnce ==
    Emitting =>
        /\ Cardinality(Starts) = Cardinality(Due)
        /\ Cardinality(Ends) = Cardinality(Due)
        /\ \A k \in Due :
              LET b == BlockIndexes(k)
              IN  /\ b /= {}
                  /\ b = Min(b)..Max(b)
                  /\ b \cap Starts = {Min(b)}
                  /\ b \cap Ends = {Max(b)}
                  /\ \A j \in 1..(Min(b) - 1) : EmitLine(j) < paths[k].start_line
                  /\ \A j \in (Max(b) + 1)..Len(output_commands) :
                        EmitLine(j) > paths[k].start_line
        /\ \A k \in Qualifying(config, paths) \ Due : BlockIndexes(k) = {}
        /\ Cardinality({j \in DOMAIN out_src : out_src[j].path = 0})
              = Cardinality({i \in 1..cmd_index : i \notin QualifyingMoveLines})
        /\ \A k \in Qualifying(config, paths) :
              \A m \in DOMAIN paths[k].moves :
                  \A j \in DOMAIN output_commands :
                      output_commands[j] /= paths[k].moves[m].command

\* a rendered path of several moves with a command of its own range inside
ExactlyOnceWitness ==
    /\ pc = "done"
    /\ \E k \in DOMAIN paths :
          /\ Rendered(k)
          /\ Len(paths[k].moves) >= 2
          /\ paths[k].end_line - paths[k].start_line >= Len(paths[k].moves)

(***************************************************************************)
(* C6  Stable ordering: the rendered blocks and the passthrough commands   *)
(* outside every qualifying path's index range are in the output in the    *)
(* order of the paths and commands in the input.                           *)
(***************************************************************************)
OutsideRanges(line) ==
    \A k \in Qualifying(config, paths) :
        line < paths[k].start_line \/ line > paths[k].end_line

\* output command j is before output command j2: the same holds in the input
InputOrder(j, j2) ==
    LET p == PathWithStart(out_src[j].path)
        p2 == PathWithStart(out_src[j2].path)
        line == output_commands[j].line_number
        line2 == output_commands[j2].line_number
    IN  IF out_src[j].path = 0 /\ out_src[j2].path = 0 THEN line < line2
        ELSE IF out_src[j].path = 0 THEN line < p2.start_line
        ELSE IF out_src[j2].path = 0 THEN p.end_line < line2
        ELSE p = p2 \/ p.end_line < p2.start_line

StableOrdering ==
    Emitting =>
        \A j, j2 \in DOMAIN output_commands :
            (/\ j < j2
             /\ out_src[j].path = 0 => OutsideRanges(output_commands[j].line_number)
             /\ out_src[j2].path = 0 => OutsideRanges(output_commands[j2].line_number))
            => InputOrder(j, j2)

\* a block between two commands copied through
StableOrderingWitness ==
    /\ pc = "done"
    /\ \E j, j2, j3 \in DOMAIN output_commands :
          /\ j < j2 /\ j2 < j3
          /\ out_src[j].path = 0 /\ out_src[j2].path > 0 /\ out_src[j3].path = 0

(***************************************************************************)
(* C7  Segmentation by feature label: a command carrying a TYPE:<label>    *)
(* annotation closes the open path and sets the tracker's label; a file    *)
(* TYPE:A, k extruding moves, TYPE:B, m extruding moves yields two paths   *)
(* of k and m moves labelled A and B; every move of a path was appended    *)
(* while the tracker's label was the path's label.                         *)
(***************************************************************************)
CarriesLabel(cmd, label) ==
    cmd.comment /= None /\ StrUpper(cmd.comment[1]) = TypeMarker \o label

LabelOnly(cmd, label) == cmd.command = None /\ CarriesLabel(cmd, label)

PlainExtrusion(i) ==
    /\ is_extrusion_move(TrackerAt(commands, i - 1), commands[i])
    /\ commands[i].comment = None

\* the file is TYPE:A, k extruding moves, TYPE:B, m extruding moves
TwoFeatureFile(k, m) ==
    /\ Len(commands) = k + m + 2
    /\ LabelOnly(commands[1], LabelA)
    /\ LabelOnly(commands[k + 2], LabelB)
    /\ \A i \in (2..(k + 1)) \cup ((k + 3)..(k + m + 2)) : PlainExtrusion(i)

AllPaths == Range(paths) \cup (IF current_path = None THEN {} ELSE {current_path[1]})

LabelInvariant ==
    /\ \A p \in AllPaths :
          \A i \in DOMAIN p.moves :
              TrackerAt(commands, p.moves[i].command.line_number).current_feature
                  = p.feature_type
    /\ pc = "select" =>
          \A k, m \in 1..MaxDetectLines :
              TwoFeatureFile(k, m) =>
                  /\ Len(paths) = 2
                  /\ Len(paths[1].moves) = k /\ paths[1].feature_type = LabelA
                  /\ Len(paths[2].moves) = m /\ paths[2].feature_type = LabelB

LabelStep ==
    \A label \in {LabelA, LabelB} :
        (/\ pc = "analyze"
         /\ cmd_index < Len(commands)
         /\ CarriesLabel(commands[cmd_index + 1], label))
        => /\ state'.current_feature = label
           /\ current_path /= None =>
                 /\ Len(paths') = Len(paths) + 1
                 /\ paths'[Len(paths')].moves = current_path[1].moves
                 /\ current_path' /= current_path

FeatureSegmentation == [](LabelInvariant) /\ [][LabelStep]_vars

\* TYPE:A, extruding moves, TYPE:B, extruding moves, four commands or more
FeatureSegmentationWitness ==
    /\ pc = "select"
    /\ \E k, m \in 1..MaxDetectLines : k + m >= 3 /\ TwoFeatureFile(k, m)

(***************************************************************************)
(* C8  The detector returns its paths in file order with disjoint index    *)
(* ranges: start_line <= end_line for every path and p.end_line <          *)
(* q.start_line for consecutive paths p, q.                                *)
(***************************************************************************)
DisjointPaths ==
    /\ \A k \in DOMAIN paths : paths[k].start_line <= paths[k].end_line
    /\ \A k \in 1..(Len(paths) - 1) : paths[k].end_line < paths[k + 1].start_line
    /\ \A k \in DOMAIN paths :
          /\ paths[k].start_line = paths[k].moves[1].command.line_number
          /\ paths[k].end_line = paths[k].moves[Len(paths[k].moves)].command.line_number
          /\ \A i \in 1..(Len(paths[k].moves) - 1) :
                paths[k].moves[i].command.line_number
                    < paths[k].moves[i + 1].command.line_number

\* two paths, the first closed by the command that opens the second
DisjointPathsWitness ==
    /\ pc = "select"
    /\ Len(paths) >= 2
    /\ \E k \in 1..(Len(paths) - 1) : paths[k + 1].start_line = paths[k].end_line + 1
    /\ \E k \in DOMAIN paths : Len(paths[k].moves) >= 2

(***************************************************************************)
(* C9  Adaptive shrink: for a path of length L > 0 and ramps up, down >= 0 *)
(* with up + down > 0.8 L, the resolved ramps sum to 0.8 L and keep the    *)
(* ratio of the configured ones.                                           *)
(***************************************************************************)
EightTenths(length) == RMul(length, Rat(4, 5))

AdaptiveShrink ==
    (/\ pc = "returned"
     /\ RLt(RZero, args.path_length)
     /\ RLt(EightTenths(args.path_length), RAdd(args.up, args.down)))
    => /\ RAdd(result.up, result.down) = EightTenths(args.path_length)
       /\ RMul(result.up, args.down) = RMul(result.down, args.up)

\* both ramps shrunk
AdaptiveShrinkWitness ==
    /\ pc = "returned"
    /\ RLt(RZero, args.path_length)
    /\ RLt(EightTenths(args.path_length), RAdd(args.up, args.down))
    /\ RLt(result.up, args.up)
    /\ RLt(result.down, args.down)
    /\ result.up /= result.down

(***************************************************************************)
(* C10  For every path length >= 0 and ramps >= 0: ramps that sum to at    *)
(* most 0.8 of the length are resolved unchanged, and the resolved ramps   *)
(* never sum to more than 0.8 of the length.                               *)
(***************************************************************************)
RampBudget ==
    pc = "returned" =>
        /\ RLe(RAdd(args.up, args.down), EightTenths(args.path_length))
              => result.up = args.up /\ result.down = args.down
        /\ RLe(RAdd(result.up, result.down), EightTenths(args.path_length))

\* ramps that fill the budget exactly and stay as configured
RampBudgetWitness ==
    /\ pc = "returned"
    /\ RLt(RZero, args.up)
    /\ RLt(RZero, args.down)
    /\ RAdd(args.up, args.down) = EightTenths(args.path_length)
    /\ result.up = args.up /\ result.down = args.down

(***************************************************************************)
(* C11  Ramp monotonicity: for a path longer than twice the sum of the     *)
(* configured ramps, the floored speed factor does not decrease with the   *)
(* distance over [0, eff_ramp_up] when the ramp-up curve is linear,        *)
(* quadratic, scurve or sigmoid, and does not increase over                *)
(* [total - eff_ramp_down, total] when the ramp-down curve is one of them. *)
(***************************************************************************)
MonotoneCurves == {LINEAR, QUADRATIC, SCURVE, SIGMOID}

LongPath(a) == RLt(RMul(RInt(2), RAdd(a.up, a.down)), a.total)

RampMonotonicity ==
    (pc = "profiled" /\ LongPath(args)) =>
        LET eff == ProfileRamps(args)
        IN  \A d1, d2 \in DOMAIN result :
                RLe(d1, d2) =>
                    /\ (args.up_curve \in MonotoneCurves /\ RLe(d2, eff.up))
                          => RLe(result[d1], result[d2])
                    /\ (args.down_curve \in MonotoneCurves
                            /\ RLe(RSub(args.total, eff.down), d1))
                          => RLe(result[d2], result[d1])

\* a sigmoid ramp-up that rises and a quadratic ramp-down that falls, strictly
RampMonotonicityWitness ==
    /\ pc = "profiled"
    /\ LongPath(args)
    /\ args.up_curve = SIGMOID
    /\ args.down_curve = QUADRATIC
    /\ LET eff == ProfileRamps(args)
       IN  /\ \E d1, d2 \in DOMAIN result :
                 /\ RLt(d1, d2) /\ RLt(d2, eff.up)
                 /\ RLt(result[d1], result[d2])
           /\ \E d1, d2 \in DOMAIN result :
                 /\ RLt(RSub(args.total, eff.down), d1) /\ RLt(d1, d2)
                 /\ RLt(result[d2], result[d1])

(***************************************************************************)
(* C12  Concrete scenario: a single straight move of planar length 10 at   *)
(* feed 1200, rendered with ramp_up_length 5, ramp_down_length 4,          *)
(* segment_resolution 0.5 and linear curves, has resolved ramps 5*(8/9)    *)
(* and 4*(8/9), is subdivided, and has speed factor max(0.5,               *)
(* min_speed_ratio) at distance eff_ramp_up/2, which is exactly 0.5 with   *)
(* the default floor; every sub-segment whose midpoint distance d is below *)
(* eff_ramp_up is emitted at feed 1200 * max(d/eff_ramp_up,                *)
(* min_speed_ratio).                                                       *)
(***************************************************************************)
IsScenario(a) ==
    /\ Len(a.path.moves) = 1
    /\ total_length(a.path) = RInt(10)
    /\ a.path.moves[1].feedrate = RInt(1200)
    /\ a.cfg.ramp_up_length = RInt(5)
    /\ a.cfg.ramp_down_length = RInt(4)
    /\ a.cfg.segment_resolution = Rat(1, 2)
    /\ a.cfg.ramp_up_curve = LINEAR
    /\ a.cfg.ramp_down_curve = LINEAR

\* the commands emitted for the moves: result without its three comments
EmittedMoves(r) == SubSeq(r, 3, Len(r) - 1)

ConcreteScenario ==
    (pc = "rendered" /\ IsScenario(args)) =>
        LET eff == EffectiveRamps(args.cfg, args.path)
            floor == args.cfg.min_speed_ratio
            half == RDiv(eff.up, RInt(2))
            emitted == EmittedMoves(result)
        IN  /\ eff.up = RMul(RInt(5), Rat(8, 9))
            /\ eff.down = RMul(RInt(4), Rat(8, 9))
            /\ Len(emitted) = 20
            /\ \A k \in DOMAIN emitted :
                  /\ emitted[k].line_number = 0
                  /\ Get(emitted[k].params, "X") = Rat(k, 2)
                  /\ LET d == Rat(2 * k - 1, 4)
                     IN  RLt(d, eff.up) =>
                            Get(emitted[k].params, "F")
                                = RMul(RInt(1200), RMax(RDiv(d, eff.up), floor))
            /\ FlooredFactor(args.cfg, half, RSub(RInt(10), half), eff) = RMax(Rat(1, 2), floor)
            /\ floor = Rat(1, 10)
                  => FlooredFactor(args.cfg, half, RSub(RInt(10), half), eff) = Rat(1, 2)

\* the scenario rendered with the default floor: 20 sub-segments, the first
\* one at the floor and a later one of the ramp-up above it
ConcreteScenarioWitness ==
    /\ pc = "rendered"
    /\ IsScenario(args)
    /\ args.cfg.min_speed_ratio = Rat(1, 10)
    /\ Len(result) = 23
    /\ Get(result[3].params, "F") = RInt(120)
    /\ Get(result[7].params, "F") = RMul(RInt(1200), RDiv(Rat(9, 4), Rat(40, 9)))

(***************************************************************************)
(* C13  The parser is total: parse_line returns a command for every input  *)
(* line and never raises, also on a line whose parameter text holds a      *)
(* malformed numeric token such as X.5.3; the step that parses a line      *)
(* never ends the run.                                                     *)
(***************************************************************************)
ParserTotal == [][pc = "parse" => pc' /= "failed"]_vars

(***************************************************************************)
(* C14  Round trip of rewritten commands: for every command synthesized    *)
(* for a path, parsing the text that to_gcode produces yields the same     *)
(* opcode and the same parameter keys, and for X, Y, Z, E, F a value       *)
(* within half a unit of the last decimal printed for the key (3, 3, 3, 5, *)
(* 1 decimals); a value of another key, printed by repr in plain decimal   *)
(* notation, is read back unchanged.                                       *)
(* RoundTripExact is the round trip with every value read back unchanged.  *)
(***************************************************************************)
Keys(params) == {params[i].k : i \in DOMAIN params}

Decimals(k) == IF k = "E" THEN 5 ELSE IF k = "F" THEN 1 ELSE 3

Reparsed(c) == parse_line(to_gcode(c), c.line_number)

SameShape(c) ==
    /\ ~parse_line_raises(to_gcode(c))
    /\ Reparsed(c).command = c.command
    /\ Keys(Reparsed(c).params) = Keys(c.params)

RoundTripExact ==
    pc = "rendered" =>
        \A j \in DOMAIN result :
            /\ SameShape(result[j])
            /\ \A k \in Keys(result[j].params) :
                  Get(Reparsed(result[j]).params, k) = Get(result[j].params, k)

RoundTripRounded ==
    pc = "rendered" =>
        \A j \in DOMAIN result :
            /\ SameShape(result[j])
            /\ \A k \in Keys(result[j].params) :
                  LET before == Get(result[j].params, k)
                      after == Get(Reparsed(result[j]).params, k)
                  IN  IF k \in Range(param_order)
                      THEN RLe(RAbs(RSub(after, before)), Rat(5, Pow10(Decimals(k) + 1)))
                      ELSE after = before

\* a rewritten command whose X, E and F are read back changed, having more
\* decimals than are printed, next to a key outside X, Y, Z, E, F
RoundTripRoundedWitness ==
    /\ pc = "rendered"
    /\ \E j \in DOMAIN result :
          /\ result[j].command = Some(G1)
          /\ Keys(result[j].params) = {"X", "Z", "E", "F", "A"}
          /\ \A k \in {"X", "E", "F"} :
                Get(Reparsed(result[j]).params, k) /= Get(result[j].params, k)
          /\ Get(Reparsed(result[j]).params, "Z") = Get(result[j].params, "Z")

(***************************************************************************)
(* C15  Configuration validation: a run whose configuration has            *)
(* min_speed_ratio outside (0, 1] or a negative ramp length is rejected    *)
(* before any path is rendered and before any output is produced.          *)
(***************************************************************************)
InvalidConfig(cfg) ==
    \/ RLe(cfg.min_speed_ratio, RZero)
    \/ RLt(ROne, cfg.min_speed_ratio)
    \/ RLt(cfg.ramp_up_length, RZero)
    \/ RLt(cfg.ramp_down_length, RZero)

ConfigValidation ==
    InvalidConfig(config) =>
        /\ processed_paths = {}
        /\ output_commands = <<>>
        /\ out_file = <<>>

(***************************************************************************)
(* C16  The smoothing engine is total: for every path with at least one    *)
(* move and every configuration with non-negative ramp lengths and         *)
(* min_speed_ratio in (0, 1], whatever the segment_resolution (0 included) *)
(* and the path length (0 included), rendering returns commands and does   *)
(* not raise.                                                              *)
(***************************************************************************)
EngineTotal ==
    (/\ Len(args.path.moves) >= 1
     /\ ~InvalidConfig(args.cfg))
    => pc /= "raised"

(***************************************************************************)
(* C17  A command whose opcode is none of G0, G1, G92, M82, M83 leaves     *)
(* every field of MachineState as update_from_command found it; when it    *)
(* carries no feature label and no wipe marker, the analysis step that     *)
(* handles it changes neither the tracker nor the open path nor the closed *)
(* paths, and the finished run has written its line once, as it was read.  *)
(***************************************************************************)
TrackedOpcodes == {Some(G0), Some(G1), Some(G92), Some(M82), Some(M83)}

OtherOpcode(cmd) == cmd.command \notin TrackedOpcodes

Annotated(cmd) == detect_feature_type(cmd) /= None \/ has_wipe_marker(cmd)

OtherOpcodeStep ==
    (pc = "analyze" /\ cmd_index < Len(commands) /\ cmd_index' = cmd_index + 1
        /\ OtherOpcode(commands[cmd_index + 1]))
    => LET cmd == commands[cmd_index + 1]
       IN  /\ update_from_command(state, cmd) = state
           /\ [state' EXCEPT !.current_feature = state.current_feature] = state
           /\ ~Annotated(cmd) =>
                 /\ state' = state
                 /\ current_path' = current_path
                 /\ paths' = paths

OtherOpcodeWritten ==
    pc = "done" =>
        \A i \in DOMAIN commands :
            (OtherOpcode(commands[i]) /\ ~Annotated(commands[i])) =>
                /\ Cardinality({j \in DOMAIN output_commands :
                                   output_commands[j].line_number = i}) = 1
                /\ \A j \in DOMAIN output_commands :
                      output_commands[j].line_number = i =>
                          /\ output_commands[j] = commands[i]
                          /\ out_file[j] = commands[i].raw_line \o <<"\n">>

OtherOpcodeFrame == [][OtherOpcodeStep]_vars /\ [](OtherOpcodeWritten)

\* a finished run whose path stayed open across a G2 that carries X, E and F
OtherOpcodeFrameWitness ==
    /\ pc = "done"
    /\ Len(commands) = 3
    /\ commands[2].command = Some(<<"G", "2">>)
    /\ Keys(commands[2].params) = {"X", "E", "F"}
    /\ Len(paths) = 1
    /\ MoveLines(paths[1]) = {1, 3}
    /\ \E j \in DOMAIN out_file : out_file[j] = commands[2].raw_line \o <<"\n">>

(***************************************************************************)
(* C18  is_extruding(command) is true if and only if the opcode is G1      *)
(* (never G0, whatever its parameters), the command supplies X or Y,       *)
(* supplies E, and the net extrusion under the current mode is strictly    *)
(* positive: E > 0 in relative mode, E > state.e in absolute mode. An      *)
(* analysis step records a move for a command without wipe marker exactly  *)
(* in that case.                                                           *)
(***************************************************************************)
IsExtrudingAsClaimed(st, cmd) ==
    /\ cmd.command = Some(G1)
    /\ cmd.command /= Some(G0)
    /\ \E axis \in {"X", "Y"} : axis \in Keys(cmd.params)
    /\ "E" \in Keys(cmd.params)
    /\ \/ st.relative_extrusion /\ RLt(RZero, Get(cmd.params, "E"))
       \/ ~st.relative_extrusion /\ RLt(st.e, Get(cmd.params, "E"))

\* the open path ends with a move of this command
RecordedLast(cur, cmd) ==
    /\ HasOpenMoves(cur)
    /\ cur[1].moves[Len(cur[1].moves)].command = cmd

ExtrusionStep ==
    (pc = "analyze" /\ cmd_index < Len(commands) /\ cmd_index' = cmd_index + 1)
    => LET cmd == commands[cmd_index + 1]
       IN  /\ is_extrusion_move(state, cmd) <=> IsExtrudingAsClaimed(state, cmd)
           /\ ~has_wipe_marker(cmd) =>
                 (RecordedLast(current_path', cmd) <=> IsExtrudingAsClaimed(state, cmd))

ExtrusionPredicate == [][ExtrusionStep]_vars

\* a G1 recorded, then a G0 with X and E, then a G1 whose E is below the
\* tracker's e: one path, of the first move only
ExtrusionPredicateWitness ==
    /\ pc = "analyze"
    /\ cmd_index = 3
    /\ commands[1].command = Some(G1)
    /\ commands[2].command = Some(G0)
    /\ Keys(commands[2].params) = {"X", "E"}
    /\ commands[3].command = Some(G1)
    /\ Keys(commands[3].params) = {"X", "E"}
    /\ RLt(Get(commands[3].params, "E"), Get(commands[2].params, "E"))
    /\ Len(paths) = 1
    /\ MoveLines(paths[1]) = {1}
    /\ current_path = None

(***************************************************************************)
(* C19  For every move recorded in a path, in both extrusion modes, the    *)
(* move's extrusion is the change of the tracker's e caused by the         *)
(* command (state.e after minus state.e before), its start_point is the    *)
(* tracker position before the command and its end_point the tracker       *)
(* position after it.                                                      *)
(***************************************************************************)
MoveRecordStep ==
    (pc = "analyze" /\ cmd_index < Len(commands) /\ cmd_index' = cmd_index + 1
        /\ RecordedLast(current_path', commands[cmd_index + 1]))
    => LET move == current_path'[1].moves[Len(current_path'[1].moves)]
       IN  /\ move.extrusion = RSub(state'.e, state.e)
           /\ move.start_point = get_position(state)
           /\ move.end_point = get_position(state')

MoveBookkeeping == [][MoveRecordStep]_vars

\* a move recorded in absolute mode, a switch to relative mode, and a move
\* recorded from e = 1 whose extrusion is its E and whose end is e = 3
MoveBookkeepingWitness ==
    /\ pc = "analyze"
    /\ cmd_index = 3
    /\ Len(paths) = 1
    /\ paths[1].moves[1].start_point.e = RZero
    /\ paths[1].moves[1].end_point.e = ROne
    /\ state.relative_extrusion
    /\ HasOpenMoves(current_path)
    /\ current_path[1].moves[1].start_point = Point(RInt(2), RZero, RZero, ROne)
    /\ current_path[1].moves[1].end_point = Point(RInt(4), RZero, RZero, RInt(3))
    /\ current_path[1].moves[1].extrusion = RInt(2)

(***************************************************************************)
(* C20  Mode switches: the tracker starts in absolute extrusion mode; M83  *)
(* sets relative mode and M82 sets absolute mode whatever the mode before  *)
(* (the same opcode again changes nothing), and neither changes x, y, z,   *)
(* e, the feedrate or the feature label.                                   *)
(***************************************************************************)
ModeStart ==
    (pc = "parse" \/ (pc = "analyze" /\ cmd_index = 0)) => ~state.relative_extrusion

ModeSwitchStep ==
    (pc = "analyze" /\ cmd_index < Len(commands) /\ cmd_index' = cmd_index + 1
        /\ commands[cmd_index + 1].command \in {Some(M82), Some(M83)})
    => LET cmd == commands[cmd_index + 1]
           now_relative == (cmd.command = Some(M83))
       IN  /\ state'.relative_extrusion = now_relative
           /\ [state' EXCEPT !.relative_extrusion = state.relative_extrusion,
                             !.current_feature = state.current_feature] = state
           /\ detect_feature_type(cmd) = None => state'.current_feature = state.current_feature
           /\ update_from_command(state, cmd) = [state EXCEPT !.relative_extrusion = now_relative]
           /\ update_from_command(state', cmd) = state'

ModeSwitches == [](ModeStart) /\ [][ModeSwitchStep]_vars

\* an extruding move, M83 from absolute mode, then M82 from relative mode:
\* absolute again, with the position, e and feedrate the move left
ModeSwitchesWitness ==
    /\ pc = "analyze"
    /\ cmd_index = 3
    /\ commands[2].command = Some(M83)
    /\ commands[3].command = Some(M82)
    /\ ~state.relative_extrusion
    /\ state.x = RInt(2)
    /\ state.e = ROne
    /\ state.f = RInt(600)

(***************************************************************************)
(* C21  Position reset: G92 overwrites exactly the axes among x, y, z, e   *)
(* that it supplies, with the supplied values (no delta, in either         *)
(* extrusion mode), and leaves the axes it does not supply, the feedrate,  *)
(* the extrusion mode and the feature label unchanged.                     *)
(***************************************************************************)
\* the value the claim gives an axis after cmd: the supplied one, else the old
Overwritten(cmd, key, old) == IF key \in Keys(cmd.params) THEN Get(cmd.params, key) ELSE old

\* the analysis step under way handles a command that is not skipped as a
\* wipe boundary
HandlesCommand ==
    /\ pc = "analyze"
    /\ cmd_index < Len(commands)
    /\ cmd_index' = cmd_index + 1
    /\ ~has_wipe_marker(commands[cmd_index + 1])

PositionResetStep ==
    (HandlesCommand /\ commands[cmd_index + 1].command = Some(G92))
    => LET cmd == commands[cmd_index + 1]
       IN  /\ state'.x = Overwritten(cmd, "X", state.x)
           /\ state'.y = Overwritten(cmd, "Y", state.y)
           /\ state'.z = Overwritten(cmd, "Z", state.z)
           /\ state'.e = Overwritten(cmd, "E", state.e)
           /\ state'.f = state.f
           /\ state'.relative_extrusion = state.relative_extrusion
           /\ detect_feature_type(cmd) = None => state'.current_feature = state.current_feature

PositionReset == [][PositionResetStep]_vars

\* relative mode, a move to x = 4 at feed 1200 with e = 2, then G92 E0 X7
PositionResetWitness ==
    /\ pc = "analyze"
    /\ cmd_index = 3
    /\ commands[1].command = Some(M83)
    /\ commands[3].command = Some(G92)
    /\ Keys(commands[3].params) = {"E", "X"}
    /\ state.relative_extrusion
    /\ state.x = RInt(7)
    /\ state.y = RZero
    /\ state.e = RZero
    /\ Len(paths) = 1
    /\ paths[1].moves[1].end_point.e = RInt(2)

(***************************************************************************)
(* C22  Move transition: a G0 or G1 command sets x, y, z to the supplied   *)
(* values (an axis not supplied holds), sets the feedrate if F is          *)
(* supplied, and adds the supplied E to e in relative mode or replaces e   *)
(* with it in absolute mode; the extrusion mode and the feature label are  *)
(* unchanged.                                                              *)
(***************************************************************************)
MoveTransitionStep ==
    (HandlesCommand /\ commands[cmd_index + 1].command \in {Some(G0), Some(G1)})
    => LET cmd == commands[cmd_index + 1]
       IN  /\ state'.x = Overwritten(cmd, "X", state.x)
           /\ state'.y = Overwritten(cmd, "Y", state.y)
           /\ state'.z = Overwritten(cmd, "Z", state.z)
           /\ state'.f = Overwritten(cmd, "F", state.f)
           /\ "E" \notin Keys(cmd.params) => state'.e = state.e
           /\ ("E" \in Keys(cmd.params) /\ state.relative_extrusion)
                 => state'.e = RAdd(state.e, Get(cmd.params, "E"))
           /\ ("E" \in Keys(cmd.params) /\ ~state.relative_extrusion)
                 => state'.e = Get(cmd.params, "E")
           /\ state'.relative_extrusion = state.relative_extrusion
           /\ detect_feature_type(cmd) = None => state'.current_feature = state.current_feature

MoveTransition == [][MoveTransitionStep]_vars

\* relative mode: G1 X2 E1 F600 and then a G0 to the origin that supplies
\* neither E nor F
MoveTransitionWitness ==
    /\ pc = "analyze"
    /\ cmd_index = 3
    /\ commands[1].command = Some(M83)
    /\ commands[2].command = Some(G1)
    /\ commands[3].command = Some(G0)
    /\ Keys(commands[3].params) = {"X", "Y"}
    /\ state.x = RZero
    /\ state.e = ROne
    /\ state.f = RInt(600)
    /\ state.relative_extrusion

(***************************************************************************)
(* C23  A command whose annotation contains a WIPE_START or WIPE_END       *)
(* marker closes the open path and is not handled as a move: it is never   *)
(* added to a path and leaves x, y, z, e, feedrate and extrusion mode of   *)
(* the tracker unchanged, even when the command itself is a G0, G1, G92,   *)
(* M82 or M83 with parameters.                                             *)
(***************************************************************************)
\* the annotation of cmd contains one of the two wipe markers
WipeAnnotated(cmd) ==
    /\ cmd.comment /= None
    /\ \E marker \in {WipeStart, WipeEnd} : Contains(cmd.comment[1], marker)

AllMoveLines == UNION ({MoveLines(paths[k]) : k \in DOMAIN paths}
                       \cup (IF current_path = None THEN {} ELSE {MoveLines(current_path[1])}))

WipeNeverAMove ==
    pc = "analyze" =>
       \A i \in 1..cmd_index : WipeAnnotated(commands[i]) => i \notin AllMoveLines

WipeStep ==
    (/\ pc = "analyze"
     /\ cmd_index < Len(commands)
     /\ cmd_index' = cmd_index + 1
     /\ WipeAnnotated(commands[cmd_index + 1]))
    => /\ state'.x = state.x
       /\ state'.y = state.y
       /\ state'.z = state.z
       /\ state'.e = state.e
       /\ state'.f = state.f
       /\ state'.relative_extrusion = state.relative_extrusion
       /\ ~HasOpenMoves(current_path')
       /\ IF HasOpenMoves(current_path)
          THEN /\ Len(paths') = Len(paths) + 1
               /\ SubSeq(paths', 1, Len(paths)) = paths
               /\ paths'[Len(paths')].moves = current_path[1].moves
          ELSE paths' = paths

WipeBoundary == [](WipeNeverAMove) /\ [][WipeStep]_vars

\* "G1 X2 E1 F600" and then "G1 X3 E9 F100 ;WIPE_END": the path of the first
\* is closed and the tracker is where the first command left it
WipeBoundaryWitness ==
    /\ pc = "analyze"
    /\ cmd_index = 2
    /\ WipeAnnotated(commands[2])
    /\ commands[2].command = Some(G1)
    /\ Keys(commands[2].params) = {"X", "E", "F"}
    /\ state.x = RInt(2)
    /\ state.e = ROne
    /\ state.f = RInt(600)
    /\ Len(paths) = 1
    /\ MoveLines(paths[1]) = {1}
    /\ current_path = None

(***************************************************************************)
(* C24  A non-extruding G0/G1 command closes the open path if and only if  *)
(* it carries a planar-axis parameter (X or Y); a G0/G1 carrying only a    *)
(* feedrate, or no planar axis at all, updates the tracker state only and  *)
(* leaves the open path open.                                              *)
(*                                                                         *)
(* PlanarTravel is the claim as stated.  The code closes the path on X, Y  *)
(* or Z (path_analyzer.py:254): TravelBoundary is the claim with the three *)
(* axes.  Both are about a G0/G1 that reaches the last branch of the loop: *)
(* no feature label and no wipe marker in its annotation (either closes    *)
(* the path on its own), not an extruding move, a path with moves open.    *)
(***************************************************************************)
NonExtrudingMove ==
    /\ HandlesCommand
    /\ commands[cmd_index + 1].command \in {Some(G0), Some(G1)}
    /\ ~Truthy(detect_feature_type(commands[cmd_index + 1]))
    /\ ~is_extrusion_move(state, commands[cmd_index + 1])
    /\ HasOpenMoves(current_path)

PathClosed ==
    /\ current_path' = None
    /\ Len(paths') = Len(paths) + 1
    /\ SubSeq(paths', 1, Len(paths)) = paths
    /\ paths'[Len(paths')].moves = current_path[1].moves

PathLeftOpen == current_path' = current_path /\ paths' = paths

PlanarTravelStep ==
    NonExtrudingMove =>
       IF Keys(commands[cmd_index + 1].params) \cap {"X", "Y"} /= {}
       THEN PathClosed
       ELSE PathLeftOpen

TravelBoundaryStep ==
    NonExtrudingMove =>
       IF Keys(commands[cmd_index + 1].params) \cap {"X", "Y", "Z"} /= {}
       THEN PathClosed
       ELSE PathLeftOpen

BoundaryEvent(i, axes) ==
    LET cmd == commands[i]
    IN  \/ Truthy(detect_feature_type(cmd))
        \/ WipeAnnotated(cmd)
        \/ cmd.command \in {Some(M82), Some(M83), Some(G92)}
        \/ /\ cmd.command \in {Some(G0), Some(G1)}
           /\ Keys(cmd.params) \cap axes /= {}
           /\ ~is_extrusion_move(TrackerAt(commands, i - 1), cmd)

NoEventInside(axes) ==
    \A k \in DOMAIN paths :
       \A i \in (paths[k].start_line + 1)..(paths[k].end_line - 1) : ~BoundaryEvent(i, axes)

EventBetween(axes) ==
    \A k \in 1..(Len(paths) - 1) :
       \E i \in (paths[k].end_line + 1)..paths[k + 1].start_line : BoundaryEvent(i, axes)

HandledAsExtrusion(i) ==
    /\ ~WipeAnnotated(commands[i])
    /\ commands[i].command \notin {Some(M82), Some(M83), Some(G92)}
    /\ is_extrusion_move(TrackerAt(commands, i - 1), commands[i])

\* the (path, move) places where command i is recorded
PlacesOf(i) ==
    {pm \in {<<k, j>> : k \in DOMAIN paths, j \in DOMAIN commands} :
        /\ pm[2] \in DOMAIN paths[pm[1]].moves
        /\ paths[pm[1]].moves[pm[2]].command.line_number = i}

EmittedPaths ==
    pc = "select" =>
       /\ \A k \in DOMAIN paths : Len(paths[k].moves) >= 1
       /\ \A i \in DOMAIN commands : HandledAsExtrusion(i) => Cardinality(PlacesOf(i)) = 1

EndOfStreamStep ==
    (pc = "analyze" /\ pc' = "select" /\ HasOpenMoves(current_path))
    => /\ Len(paths') = Len(paths) + 1
       /\ SubSeq(paths', 1, Len(paths)) = paths
       /\ paths'[Len(paths')].moves = current_path[1].moves
       /\ paths'[Len(paths')].end_line =
             current_path[1].moves[Len(current_path[1].moves)].command.line_number

EndOfStream == [](EmittedPaths) /\ [][EndOfStreamStep]_vars

\* a path closed by a travel move and a second one still open at the end
EndOfStreamWitness ==
    /\ pc = "select"
    /\ Len(commands) = 3
    /\ commands[2].command = Some(G0)
    /\ HandledAsExtrusion(1)
    /\ HandledAsExtrusion(3)
    /\ Len(paths) = 2
    /\ MoveLines(paths[1]) = {1}
    /\ MoveLines(paths[2]) = {3}
    /\ paths[2].end_line = 3

(***************************************************************************)
(* C27  Speed-factor branch order: f(d_from_start, d_to_end) uses the      *)
(* ramp-up curve whenever d_from_start < eff_ramp_up, even if              *)
(* d_to_end < eff_ramp_down also holds; it uses the ramp-down curve only   *)
(* when d_from_start >= eff_ramp_up and d_to_end < eff_ramp_down;          *)
(* otherwise it returns 1.0.                                               *)
(***************************************************************************)
InRampUp == RLt(args.distance_from_start, args.ramp_up_length)
InRampDown == RLt(args.distance_to_end, args.ramp_down_length)

BranchOrder ==
    pc = "factored" =>
       /\ InRampUp =>
             result = apply_curve(RDiv(args.distance_from_start, args.ramp_up_length),
                                  args.ramp_up_curve)
       /\ (~InRampUp /\ InRampDown) =>
             result = apply_curve(RDiv(args.distance_to_end, args.ramp_down_length),
                                  args.ramp_down_curve)
       /\ (~InRampUp /\ ~InRampDown) => result = ROne

\* 1 mm into a 2 mm linear ramp-up and 1 mm before the end of a 2 mm quadratic
\* ramp-down: the factor is the ramp-up's 1/2, not the ramp-down's 1/4
BranchOrderWitness ==
    /\ pc = "factored"
    /\ InRampUp
    /\ InRampDown
    /\ args.distance_from_start = ROne
    /\ args.distance_to_end = ROne
    /\ args.ramp_up_length = RInt(2)
    /\ args.ramp_down_length = RInt(2)
    /\ args.ramp_up_curve = LINEAR
    /\ args.ramp_down_curve = QUADRATIC
    /\ result = Rat(1, 2)

(***************************************************************************)
(* C28  A move of a rendered path is subdivided if and only if             *)
(* (start_dist < eff_ramp_up or end_dist > total - eff_ramp_down) and      *)
(* move.planar_length > segment_resolution, where start_dist is the sum of *)
(* the planar lengths of the preceding moves of the path and               *)
(* end_dist = start_dist + move.planar_length; otherwise exactly one       *)
(* command is emitted for it.                                              *)
(***************************************************************************)
\* the places of result that render move i of the path
CommandsOf(i) == {j \in DOMAIN result : out_src[j].move = i}

SubdivisionCondition(i) ==
    LET move == args.path.moves[i]
        total == RSum([j \in DOMAIN args.path.moves |-> args.path.moves[j].length])
        eff == calculate_effective_ramps(total, args.cfg.ramp_up_length,
                                         args.cfg.ramp_down_length)
        start_dist == RSum([j \in 1..(i - 1) |-> args.path.moves[j].length])
        end_dist == RAdd(start_dist, move.length)
    IN  /\ RLt(start_dist, eff.up) \/ RLt(RSub(total, eff.down), end_dist)
        /\ RLt(args.cfg.segment_resolution, move.length)

Subdivision ==
    pc = "rendered" =>
       \A i \in DOMAIN args.path.moves :
          IF SubdivisionCondition(i)
          THEN /\ Cardinality(CommandsOf(i)) >= 2
               /\ \A j \in CommandsOf(i) : result[j].line_number = 0
          ELSE /\ Cardinality(CommandsOf(i)) = 1
               /\ \A j \in CommandsOf(i) :
                     result[j].line_number = args.path.moves[i].command.line_number

\* two moves of 2 mm, no ramp-up and a ramp-down of 1 mm: the first move is
\* emitted as one command, the second is subdivided
SubdivisionWitness ==
    /\ pc = "rendered"
    /\ Len(args.path.moves) = 2
    /\ args.cfg.ramp_up_length = RZero
    /\ args.cfg.ramp_down_length = ROne
    /\ args.cfg.segment_resolution = Rat(1, 2)
    /\ args.path.moves[2].length = RInt(2)
    /\ ~SubdivisionCondition(1)
    /\ SubdivisionCondition(2)
    /\ Cardinality(CommandsOf(1)) = 1
    /\ Cardinality(CommandsOf(2)) = 4

(***************************************************************************)
(* C29  A subdivided move is split into                                    *)
(* N = max(2, round(move.planar_length / segment_resolution))              *)
(* sub-segments, i.e. exactly N commands are emitted for it (rounding to   *)
(* nearest, not truncation).                                               *)
(*                                                                         *)
(* SegmentsRounded is the claim as stated.  The code takes the integer     *)
(* part, int(move.length / resolution) (processor.py:184):                 *)
(* SegmentsTruncated is the claim with truncation.                         *)
(***************************************************************************)
AtLeastTwo(n) == IF n > 2 THEN n ELSE 2

LengthInResolutions(i) == RDiv(args.path.moves[i].length, args.cfg.segment_resolution)

SegmentsRounded ==
    pc = "rendered" =>
       \A i \in DOMAIN args.path.moves :
          SubdivisionCondition(i) =>
             Cardinality(CommandsOf(i)) = AtLeastTwo(RRound(LengthInResolutions(i)))

SegmentsTruncated ==
    pc = "rendered" =>
       \A i \in DOMAIN args.path.moves :
          SubdivisionCondition(i) =>
             Cardinality(CommandsOf(i)) = AtLeastTwo(RTrunc(LengthInResolutions(i)))

\* the move of 10 mm at a resolution of 1.5 mm: 6 sub-segments, where
\* rounding 6.67 gives 7
SegmentsTruncatedWitness ==
    /\ pc = "rendered"
    /\ Len(args.path.moves) = 1
    /\ args.path.moves[1].length = RInt(10)
    /\ args.cfg.segment_resolution = Rat(3, 2)
    /\ SubdivisionCondition(1)
    /\ RRound(LengthInResolutions(1)) = 7
    /\ Cardinality(CommandsOf(1)) = 6

(***************************************************************************)
(* C30  The N sub-segments of a subdivided move partition it: the k-th     *)
(* sub-segment (k = 1..N) ends at start + (end - start) * k/N in x, y and  *)
(* z, so the last sub-segment ends exactly at the original move's end      *)
(* position, and each sub-segment carries extrusion                        *)
(* move.extrusion_delta / N, whose N-fold sum is move.extrusion_delta.     *)
(*                                                                         *)
(* The end of a sub-segment is read from the X, Y, Z of its command and    *)
(* its extrusion from the E; a command without Z keeps the z of the move,  *)
(* which then starts and ends at the same z.                               *)
(***************************************************************************)
\* the k-th of the commands that render move i
SubSegment(i, k) ==
    result[(CHOOSE j \in CommandsOf(i) : \A other \in CommandsOf(i) : j <= other) + k - 1]

Along(from, to, k, n) == RAdd(from, RMul(RSub(to, from), Rat(k, n)))

EndsAt(cmd, move, k, n) ==
    /\ Get(cmd.params, "X") = Along(move.start_point.x, move.end_point.x, k, n)
    /\ Get(cmd.params, "Y") = Along(move.start_point.y, move.end_point.y, k, n)
    /\ IF "Z" \in Keys(cmd.params)
       THEN Get(cmd.params, "Z") = Along(move.start_point.z, move.end_point.z, k, n)
       ELSE move.end_point.z = move.start_point.z

SegmentPartition ==
    pc = "rendered" =>
       \A i \in DOMAIN args.path.moves :
          SubdivisionCondition(i) =>
             LET move == args.path.moves[i]
                 n == Cardinality(CommandsOf(i))
             IN  /\ \A k \in 1..n :
                       /\ EndsAt(SubSegment(i, k), move, k, n)
                       /\ Get(SubSegment(i, k).params, "E") = RDiv(move.extrusion, RInt(n))
                 /\ Get(SubSegment(i, n).params, "X") = move.end_point.x
                 /\ Get(SubSegment(i, n).params, "Y") = move.end_point.y
                 /\ "Z" \in Keys(move.command.params) =>
                       Get(SubSegment(i, n).params, "Z") = move.end_point.z
                 /\ RSum([k \in 1..n |-> Get(SubSegment(i, k).params, "E")]) = move.extrusion

\* the climbing move of 5 mm to (3, 4, 1) in three sub-segments
SegmentPartitionWitness ==
    /\ pc = "rendered"
    /\ Len(args.path.moves) = 1
    /\ SubdivisionCondition(1)
    /\ "Z" \in Keys(args.path.moves[1].command.params)
    /\ Cardinality(CommandsOf(1)) = 3
    /\ Get(SubSegment(1, 1).params, "X") = ROne
    /\ Get(SubSegment(1, 1).params, "Y") = Rat(4, 3)
    /\ Get(SubSegment(1, 1).params, "Z") = Rat(1, 3)
    /\ Get(SubSegment(1, 2).params, "E") = Rat(1, 3)
    /\ Get(SubSegment(1, 3).params, "X") = RInt(3)
    /\ Get(SubSegment(1, 3).params, "Y") = RInt(4)
    /\ Get(SubSegment(1, 3).params, "Z") = ROne

(***************************************************************************)
(* C31  Non-subdivided rendering: for a move that is not subdivided the    *)
(* emitted command has the same opcode and the same parameter keys and     *)
(* values as the original command except F, which is set to                *)
(* move.feedrate * factor with factor evaluated once at the move's         *)
(* midpoint distance; coordinates and the E value are untouched.           *)
(***************************************************************************)
\* the floored speed factor at the midpoint of move i of the path
MidpointFactor(i) ==
    LET moves == args.path.moves
        total == RSum([j \in DOMAIN moves |-> moves[j].length])
        eff == calculate_effective_ramps(total, args.cfg.ramp_up_length,
                                         args.cfg.ramp_down_length)
        mid == RAdd(RSum([j \in 1..(i - 1) |-> moves[j].length]),
                    RDiv(moves[i].length, RInt(2)))
    IN  RMax(calculate_speed_factor(mid, RSub(total, mid), eff.up, eff.down,
                                    args.cfg.ramp_up_curve, args.cfg.ramp_down_curve),
             args.cfg.min_speed_ratio)

FeedOnlyRewrite ==
    pc = "rendered" =>
       \A i \in DOMAIN args.path.moves :
          ~SubdivisionCondition(i) =>
             \A j \in CommandsOf(i) :
                LET original == args.path.moves[i].command
                IN  /\ result[j].command = original.command
                    /\ Keys(result[j].params) = Keys(original.params) \cup {"F"}
                    /\ \A key \in Keys(original.params) \ {"F"} :
                          Get(result[j].params, key) = Get(original.params, key)
                    /\ Get(result[j].params, "F") =
                          RMul(args.path.moves[i].feedrate, MidpointFactor(i))

\* "G1 X.0004 Z.25 E.123456 F60.57 A7 ; outer" in a linear ramp-up: one
\* command with the feed at 5/8 of 60.57 and everything else as it was
FeedOnlyRewriteWitness ==
    /\ pc = "rendered"
    /\ Len(args.path.moves) = 1
    /\ Keys(args.path.moves[1].command.params) = {"X", "Z", "E", "F", "A"}
    /\ ~SubdivisionCondition(1)
    /\ MidpointFactor(1) = Rat(5, 8)
    /\ \E j \in CommandsOf(1) :
          /\ Get(result[j].params, "A") = RInt(7)
          /\ Get(result[j].params, "E") = Rat(123456, 1000000)
          /\ Get(result[j].params, "F") = RMul(Rat(6057, 100), Rat(5, 8))

(***************************************************************************)
(* C32  Degenerate ramps: when both resolved ramp lengths are zero         *)
(* (configured ramps zero, or path length zero), rendering a path          *)
(* subdivides no move, every emitted move has speed factor 1.0 (feed       *)
(* unchanged) and is tagged STEADY.                                        *)
(***************************************************************************)
DegenerateRamps ==
    \/ args.cfg.ramp_up_length = RZero /\ args.cfg.ramp_down_length = RZero
    \/ RSum([j \in DOMAIN args.path.moves |-> args.path.moves[j].length]) = RZero

\* the annotation ends with the tag and holds no other phase
TaggedSteady(cmd) ==
    /\ cmd.comment /= None
    /\ Len(cmd.comment[1]) >= Len(Steady)
    /\ SubSeq(cmd.comment[1], Len(cmd.comment[1]) - Len(Steady) + 1, Len(cmd.comment[1])) = Steady
    /\ ~Contains(cmd.comment[1], RampUp)
    /\ ~Contains(cmd.comment[1], RampDown)

AllSteady ==
    (pc \in {"rendered", "raised"} /\ DegenerateRamps) =>
       /\ pc = "rendered"
       /\ \A i \in DOMAIN args.path.moves :
             /\ Cardinality(CommandsOf(i)) = 1
             /\ \A j \in CommandsOf(i) :
                   /\ Get(result[j].params, "F") = args.path.moves[i].feedrate
                   /\ TaggedSteady(result[j])

\* the move of 10 mm with both ramps configured 0 and a resolution of 0.5:
\* one command at feed 1200
AllSteadyWitness ==
    /\ pc = "rendered"
    /\ args.cfg.ramp_up_length = RZero
    /\ args.cfg.ramp_down_length = RZero
    /\ args.cfg.segment_resolution = Rat(1, 2)
    /\ Len(args.path.moves) = 1
    /\ args.path.moves[1].length = RInt(10)
    /\ Cardinality(CommandsOf(1)) = 1
    /\ \E j \in CommandsOf(1) :
          Get(result[j].params, "F") = RInt(1200) /\ result[j].comment = Some(Steady)

(***************************************************************************)
(* C33  Curve library: for every progress value (also outside [0,1]) and   *)
(* every kind, shape clamps progress to [0,1] before evaluating and        *)
(* returns a value in [0,1]; for linear, quadratic and scurve              *)
(* shape(0) = 0 and shape(1) = 1, the two scurve branches agree at 0.5,    *)
(* and an unrecognised kind yields the clamped progress itself.            *)
(***************************************************************************)
Clamped(progress) ==
    IF RLt(progress, RZero) THEN RZero
    ELSE IF RLt(ROne, progress) THEN ROne
    ELSE progress

CurveLibrary ==
    pc = "shaped" =>
       /\ RLe(RZero, result) /\ RLe(result, ROne)
       /\ result = apply_curve(Clamped(args.progress), args.curve_type)
       /\ args.curve_type \in {LINEAR, QUADRATIC, SCURVE} =>
             /\ RLe(args.progress, RZero) => result = RZero
             /\ RLe(ROne, args.progress) => result = ROne
       /\ (args.curve_type = SCURVE /\ args.progress = Rat(1, 2)) =>
             /\ result = RMul(RInt(2), RMul(Rat(1, 2), Rat(1, 2)))
             /\ result = RSub(ROne, RMul(RInt(2), RMul(Rat(1, 2), Rat(1, 2))))
       /\ args.curve_type \notin CurveType => result = Clamped(args.progress)

\* a progress of 3/2 under the quadratic curve: the value at 1
CurveLibraryWitness ==
    /\ pc = "shaped"
    /\ args.progress = Rat(3, 2)
    /\ args.curve_type = QUADRATIC
    /\ result = ROne

(***************************************************************************)
(* C34  Detector reentrancy: analyze starts from a fresh MachineState on   *)
(* every call, so the paths returned for a command sequence do not depend  *)
(* on any earlier call to analyze on the same analyzer (two runs on the    *)
(* same input, with any other run in between, return equal paths), and     *)
(* process_file likewise starts from fresh statistics.                     *)
(***************************************************************************)
FreshTracker ==
    (pc = "parse" /\ pc' = "analyze") => state' = MachineState0

FreshStatistics ==
    (pc = "start" /\ pc' = "parse") => stats' = ProcessingStats0

SameInputSameResult ==
    \A i, j \in DOMAIN result :
       RunInputs(args)[i] = RunInputs(args)[j] =>
          /\ result[i].paths = result[j].paths
          /\ result[i].stats = result[j].stats

Reentrancy == [](SameInputSameResult) /\ [][FreshTracker /\ FreshStatistics]_vars

\* "G1 X2 E1 F600" alone, then after M83, then alone again: the third call
\* finds the path of the first although the second left e = 1 behind
ReentrancyWitness ==
    /\ pc = "start"
    /\ Len(result) = 3
    /\ Len(args.first) = 1
    /\ Len(args.other) = 2
    /\ Len(result[1].paths) = 1
    /\ Len(result[2].paths) = 1
    /\ result[2].paths /= result[1].paths
    /\ result[3].paths = result[1].paths
    /\ result[3].stats.paths_processed = 1
    /\ state.e = ROne
    /\ ~state.relative_extrusion

(***************************************************************************)
(* C35  Every move of every path returned by the detector has              *)
(* extrusion_delta > 0, in both extrusion modes, hence every path has      *)
(* total_extrusion > 0.                                                    *)
(***************************************************************************)
PositiveExtrusion ==
    /\ \A k \in DOMAIN paths :
          /\ \A i \in DOMAIN paths[k].moves : RLt(RZero, paths[k].moves[i].extrusion)
          /\ RLt(RZero, total_extrusion(paths[k]))
    /\ current_path /= None =>
          \A i \in DOMAIN current_path[1].moves : RLt(RZero, current_path[1].moves[i].extrusion)

\* a path recorded in absolute mode (E from 0 to 1) and, after M83, a path
\* recorded in relative mode (E2)
PositiveExtrusionWitness ==
    /\ pc = "select"
    /\ Len(commands) = 3
    /\ commands[2].command = Some(M83)
    /\ Len(paths) = 2
    /\ paths[1].moves[1].extrusion = ROne
    /\ paths[2].moves[1].extrusion = RInt(2)
    /\ paths[2].moves[1].start_point.e = ROne
    /\ paths[2].moves[1].end_point.e = RInt(3)

(***************************************************************************)
(* C36  Path continuity: for every path returned by the detector and every *)
(* pair of consecutive moves in it, the later move's start_point equals    *)
(* the earlier move's end_point in x, y, z and e, whatever non-boundary    *)
(* commands (feedrate-only or E-only G1, other opcodes, comments) lie      *)
(* between them in the stream.                                             *)
(***************************************************************************)
ContinuousMoves(moves) ==
    \A i \in 1..(Len(moves) - 1) : moves[i + 1].start_point = moves[i].end_point

PathContinuity ==
    /\ \A k \in DOMAIN paths : ContinuousMoves(paths[k].moves)
    /\ current_path /= None => ContinuousMoves(current_path[1].moves)

(***************************************************************************)
(* C37  Modal feedrate preservation: for every passthrough command, the    *)
(* modal feedrate in force when it executes in the output stream (the last *)
(* F supplied by a preceding G0/G1 of the output) equals the modal         *)
(* feedrate in force at that command in the input stream; in particular a  *)
(* move without F that follows a rendered path runs at the same feed as in *)
(* the input.                                                              *)
(***************************************************************************)
\* the F of the last G0/G1 with an F among the first n commands of cmds, the
\* tracker's initial feedrate if there is none
RECURSIVE ModalFeed(_, _)
ModalFeed(cmds, n) ==
    IF n = 0 THEN MachineState0.f
    ELSE IF cmds[n].command \in {Some(G0), Some(G1)} /\ "F" \in Keys(cmds[n].params)
    THEN Get(cmds[n].params, "F")
    ELSE ModalFeed(cmds, n - 1)

ModalFeedrate ==
    pc = "done" =>
       \A j \in DOMAIN output_commands :
          out_src[j].path = 0 =>
             ModalFeed(output_commands, j - 1)
                = ModalFeed(commands, output_commands[j].line_number - 1)

(***************************************************************************)
(* C38  Order of interleaved commands: a passthrough command that lies     *)
(* between two moves of the same qualifying path in the input (a           *)
(* feedrate-only or E-only G1, another opcode, a plain comment) keeps its  *)
(* order relative to those moves in the output, i.e. it is emitted after   *)
(* the rewritten commands of the earlier move and before those of the      *)
(* later move.                                                             *)
(***************************************************************************)
\* output command j renders a move of a path
RendersMove(j) == out_src[j].path /= 0 /\ out_src[j].move /= 0

InterleavedOrder ==
    pc = "done" =>
       \A j, r \in DOMAIN output_commands :
          (/\ out_src[j].path = 0
           /\ RendersMove(r)
           /\ PathWithStart(out_src[r].path).start_line < output_commands[j].line_number
           /\ output_commands[j].line_number < PathWithStart(out_src[r].path).end_line)
          => (r < j <=> SourceMove(r).command.line_number < output_commands[j].line_number)

(***************************************************************************)
(* C39  Statistics accounting: after every run                             *)
(* paths_processed + paths_skipped = paths_found, total_path_length is the *)
(* sum of total_length over the qualifying paths, input_lines is the       *)
(* number of parsed commands, and output_lines = input_lines - (number of  *)
(* moves in qualifying paths) + sum over qualifying paths of (3 + number   *)
(* of commands emitted for its moves).                                     *)
(***************************************************************************)
RECURSIVE IntSum(_)
IntSum(s) == IF s = <<>> THEN 0 ELSE IntSum(SubSeq(s, 1, Len(s) - 1)) + s[Len(s)]

IsQualifying(path) ==
    /\ RLe(config.min_path_length, RSum([i \in DOMAIN path.moves |-> path.moves[i].length]))
    /\ (config.target_features /= None /\ config.target_features[1] /= <<>>) =>
          \E n \in DOMAIN config.target_features[1] :
             config.target_features[1][n] = path.feature_type

\* the commands that render the moves of a path
EmittedForMoves(path) ==
    Cardinality({j \in DOMAIN out_src : out_src[j].path = path.start_line /\ out_src[j].move /= 0})

StatisticsAccounting ==
    pc = "done" =>
       /\ stats.paths_processed + stats.paths_skipped = stats.paths_found
       /\ stats.paths_found = Len(paths)
       /\ stats.total_path_length =
             RSum([k \in DOMAIN paths |->
                     IF IsQualifying(paths[k])
                     THEN RSum([i \in DOMAIN paths[k].moves |-> paths[k].moves[i].length])
                     ELSE RZero])
       /\ stats.input_lines = Len(commands)
       /\ stats.output_lines =
             stats.input_lines
             - IntSum([k \in DOMAIN paths |->
                         IF IsQualifying(paths[k]) THEN Len(paths[k].moves) ELSE 0])
             + IntSum([k \in DOMAIN paths |->
                         IF IsQualifying(paths[k]) THEN 3 + EmittedForMoves(paths[k]) ELSE 0])
       /\ stats.output_lines = Len(out_file)

\* "G1 Y.5 E3" (0.5 mm, skipped), "M83", "G1 X4 E2" (4 mm, rendered in 8
\* sub-segments): 3 lines in, 2 + 3 + 8 lines out
StatisticsAccountingWitness ==
    /\ pc = "done"
    /\ stats.input_lines = 3
    /\ stats.paths_found = 2
    /\ stats.paths_skipped = 1
    /\ stats.paths_processed = 1
    /\ stats.total_path_length = RInt(4)
    /\ stats.output_lines = 13

====
